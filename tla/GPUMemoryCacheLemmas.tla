------------------------- MODULE GPUMemoryCacheLemmas -------------------------
(***************************************************************************)
(* The inductive invariant of the cache of column blocks, and lemmas: what *)
(* the recursive operators of the model compute, and what entries that     *)
(* leave, memory that is granted, exceptions and evictions do to the       *)
(* invariant.                                                              *)
(***************************************************************************)
EXTENDS GPUMemoryCache, FiniteSetTheorems, WellFoundedInduction, TLAPS

-----------------------------------------------------------------------------
(***************************************************************************)
(* Induction, with the set of the cases for which a claim holds in place   *)
(* of the claim: a least counterexample would have to be one.              *)
(***************************************************************************)

\* A nonempty set of numbers has a least one.
LEMMA LeastNumber ==
    ASSUME NEW T \in SUBSET Nat, T # {}
    PROVE  \E x \in T : \A y \in T : x <= y
<1> DEFINE R == OpToRel(<, Nat)
<1>1. IsWellFoundedOn(R, Nat)
  BY NatLessThanWellFounded, Zenon
<1> HIDE DEF R
<1>2. PICK x \in T : \A y \in T : ~(<<y, x>> \in R)
  BY <1>1, WFMin, Zenon
<1>3. \A y \in T : ~(y < x)
  BY <1>2, Zenon DEF R, OpToRel
<1> QED
  BY <1>3

\* A set that contains a number whenever it contains all smaller ones
\* contains every number.
LEMMA NumberInduction ==
    ASSUME NEW S, \A n \in Nat : (\A m \in Nat : m < n => m \in S) => n \in S
    PROVE  \A n \in Nat : n \in S
<1> SUFFICES ASSUME {n \in Nat : n \notin S} # {} PROVE FALSE
  BY Zenon
<1>1. PICK x \in {n \in Nat : n \notin S} : \A y \in {n \in Nat : n \notin S} : x <= y
  BY LeastNumber, Zenon
<1> QED
  BY <1>1

\* A set that contains a finite set whenever it contains all smaller subsets
\* of it contains every finite set.
LEMMA SubsetInduction ==
    ASSUME NEW S, IsFiniteSet(S), NEW B,
           \A T \in SUBSET S : (\A U \in SUBSET T : U # T => U \in B) => T \in B
    PROVE  \A T \in SUBSET S : T \in B
<1> DEFINE Bad == {T \in SUBSET S : T \notin B}
<1> SUFFICES ASSUME Bad # {} PROVE FALSE
  BY Zenon
<1>1. IsWellFoundedOn(StrictSubsetOrdering(S), SUBSET S)
  <2>1. IsWellFoundedOn(StrictSubsetOrdering(S), FiniteSubsetsOf(S))
    BY FS_StrictSubsetOrderingWellFounded, Zenon
  <2>2. FiniteSubsetsOf(S) = SUBSET S
    BY FS_FiniteSubsetsOfFinite, Zenon
  <2> QED
    BY <2>1, <2>2, Zenon
<1>2. PICK T \in Bad : \A U \in Bad : ~(<<U, T>> \in StrictSubsetOrdering(S))
  <2>1. Bad \subseteq SUBSET S
    BY Zenon
  <2> HIDE DEF Bad
  <2> QED
    BY <1>1, <2>1, WFMin
<1>3. \A U \in SUBSET T : U # T => U \in B
  BY <1>2, Zenon DEF StrictSubsetOrdering
<1> QED
  BY <1>3, Zenon

-----------------------------------------------------------------------------
(***************************************************************************)
(* Sums over finite sets.                                                  *)
(***************************************************************************)

Member(s) == CHOOSE x \in s : TRUE

Total(f, s) == IF s = {} THEN 0 ELSE f[Member(s)] + SumFunctionOnSet(f, s \ {Member(s)})

\* The fold over a set of summands, as the recursive function it is.
LEMMA SumUnfolded ==
    ASSUME NEW f, NEW S
    PROVE  SumFunctionOnSet(f, S) =
             (CHOOSE g : g = [s \in SUBSET S |-> IF s = {} THEN 0 ELSE f[Member(s)] + g[s \ {Member(s)}]])[S]
BY Zenon DEF SumFunctionOnSet, FoldFunctionOnSet, MapThenFoldSet, Member

\* The recursion that defines a sum is the one the sum obeys.
LEMMA SumIsTotal ==
    ASSUME NEW f, NEW S, IsFiniteSet(S)
    PROVE  SumFunctionOnSet(f, S) = Total(f, S)
<1> DEFINE B == {T \in SUBSET S : SumFunctionOnSet(f, T) = Total(f, T)}
<1>1. ASSUME NEW T \in SUBSET S, \A U \in SUBSET T : U # T => U \in B
      PROVE  T \in B
  <2> DEFINE Rec(g) == g = [s \in SUBSET T |-> IF s = {} THEN 0 ELSE f[Member(s)] + g[s \ {Member(s)}]]
             h == [s \in SUBSET T |-> Total(f, s)]
             g == CHOOSE k : Rec(k)
  <2>0. \A s : s # {} => Member(s) \in s
    BY Zenon DEF Member
  <2>1. \A s \in SUBSET T : s # T => SumFunctionOnSet(f, s) = Total(f, s)
    BY <1>1, Zenon
  <2>2. Rec(h)
    <3>1. ASSUME NEW s \in SUBSET T, s # {}
          PROVE  Total(f, s) = f[Member(s)] + h[s \ {Member(s)}]
      <4>1. s \ {Member(s)} \in SUBSET T /\ s \ {Member(s)} # T
        BY <3>1, <2>0, Zenon
      <4>2. h[s \ {Member(s)}] = SumFunctionOnSet(f, s \ {Member(s)})
        BY <4>1, <2>1, Zenon
      <4> QED
        BY <4>2, <3>1, Zenon DEF Total
    <3>2. Total(f, {}) = 0
      BY Zenon DEF Total
    <3> HIDE DEF h
    <3> QED
      BY <3>1, <3>2, Zenon DEF h
  <2>3. Rec(g)
    BY <2>2, Zenon
  <2>4. SumFunctionOnSet(f, T) = g[T]
    BY SumUnfolded, Zenon
  <2> HIDE DEF g, h
  <2>5. \A s \in SUBSET T : g[s] = IF s = {} THEN 0 ELSE f[Member(s)] + g[s \ {Member(s)}]
    BY <2>3, Zenon
  <2>6. \A s \in SUBSET T : s # T => g[s] = SumFunctionOnSet(f, s)
    <3> DEFINE C == {s \in SUBSET T : s # T => g[s] = SumFunctionOnSet(f, s)}
    <3>1. ASSUME NEW s \in SUBSET T, \A u \in SUBSET s : u # s => u \in C
          PROVE  s \in C
      <4> SUFFICES ASSUME s # T PROVE g[s] = SumFunctionOnSet(f, s)
        BY Zenon
      <4>1. CASE s = {}
        BY <4>1, <2>1, <2>5, Zenon DEF Total
      <4>2. CASE s # {}
        <5>1. s \ {Member(s)} \in C /\ s \ {Member(s)} # T
          BY <3>1, <4>2, <2>0, Zenon
        <5> QED
          BY <4>2, <5>1, <2>1, <2>5, Zenon DEF Total
      <4> QED
        BY <4>1, <4>2, Zenon
    <3>2. IsFiniteSet(T)
      BY FS_Subset, Zenon
    <3> HIDE DEF C
    <3>3. \A s \in SUBSET T : s \in C
      BY <3>1, <3>2, SubsetInduction, Zenon
    <3> QED
      BY <3>3, Zenon DEF C
  <2>7. g[T] = Total(f, T)
    <3>1. CASE T = {}
      BY <3>1, <2>5, Zenon DEF Total
    <3>2. CASE T # {}
      <4>1. T \ {Member(T)} \in SUBSET T /\ T \ {Member(T)} # T
        BY <3>2, <2>0, Zenon
      <4> QED
        BY <3>2, <4>1, <2>5, <2>6, Zenon DEF Total
    <3> QED
      BY <3>1, <3>2, Zenon
  <2> QED
    BY <2>4, <2>7, Zenon
<1> HIDE DEF B
<1>2. S \in B
  BY <1>1, SubsetInduction, Zenon
<1> QED
  BY <1>2, Zenon DEF B

\* A sum of numbers is a number.
LEMMA SumIsNumber ==
    ASSUME NEW f, NEW S, IsFiniteSet(S), \A x \in S : f[x] \in Nat
    PROVE  SumFunctionOnSet(f, S) \in Nat
<1> DEFINE B == {T \in SUBSET S : SumFunctionOnSet(f, T) \in Nat}
<1>1. ASSUME NEW T \in SUBSET S, \A U \in SUBSET T : U # T => U \in B
      PROVE  T \in B
  <2>1. SumFunctionOnSet(f, T) = Total(f, T)
    BY FS_Subset, SumIsTotal, Zenon
  <2>2. CASE T = {}
    BY <2>1, <2>2 DEF Total
  <2>3. CASE T # {}
    <3>1. Member(T) \in T
      BY <2>3, Zenon DEF Member
    <3>2. SumFunctionOnSet(f, T \ {Member(T)}) \in Nat /\ f[Member(T)] \in Nat
      BY <3>1, <1>1, Zenon
    <3> QED
      BY <2>1, <2>3, <3>2 DEF Total
  <2> QED
    BY <2>2, <2>3, Zenon
<1> HIDE DEF B
<1>2. S \in B
  BY <1>1, SubsetInduction, Zenon
<1> QED
  BY <1>2, Zenon DEF B

\* Any summand can be taken out first.
LEMMA SumTakesOut ==
    ASSUME NEW f, NEW S, IsFiniteSet(S), \A x \in S : f[x] \in Nat
    PROVE  \A x \in S : SumFunctionOnSet(f, S) = f[x] + SumFunctionOnSet(f, S \ {x})
<1> DEFINE Sum(T) == SumFunctionOnSet(f, T)
           B == {T \in SUBSET S : \A x \in T : Sum(T) = f[x] + Sum(T \ {x})}
<1>1. ASSUME NEW T \in SUBSET S, \A U \in SUBSET T : U # T => U \in B
      PROVE  T \in B
  <2> SUFFICES ASSUME NEW x \in T PROVE Sum(T) = f[x] + Sum(T \ {x})
    BY Zenon
  <2> DEFINE y == Member(T)
  <2>1. y \in T
    BY Zenon DEF Member
  <2> HIDE DEF y
  <2>2. Sum(T) = f[y] + Sum(T \ {y})
    BY FS_Subset, SumIsTotal, Zenon DEF Total, y
  <2>3. CASE x = y
    BY <2>2, <2>3, Zenon
  <2>4. CASE x # y
    <3>1. T \ {y} \in B /\ T \ {x} \in B
      BY <1>1, <2>1, Zenon
    <3> DEFINE rest == T \ {x, y}
    <3>2. (T \ {y}) \ {x} = rest /\ (T \ {x}) \ {y} = rest
      BY Zenon
    <3> HIDE DEF rest
    <3>3. Sum(T \ {y}) = f[x] + Sum(rest)
      BY <3>1, <3>2, <2>4, Zenon
    <3>4. Sum(T \ {x}) = f[y] + Sum(rest)
      BY <3>1, <3>2, <2>1, <2>4, Zenon
    <3>5. Sum(rest) \in Nat /\ f[x] \in Nat /\ f[y] \in Nat
      <4>1. rest \in SUBSET S
        BY Zenon DEF rest
      <4> QED
        BY <4>1, <2>1, FS_Subset, SumIsNumber, Zenon
    <3> QED
      BY <2>2, <3>3, <3>4, <3>5
  <2> QED
    BY <2>3, <2>4, Zenon
<1> HIDE DEF B
<1>2. S \in B
  BY <1>1, SubsetInduction, Zenon
<1> QED
  BY <1>2, Zenon DEF B

\* The sum is that of a part and of the rest.
LEMMA SumSplits ==
    ASSUME NEW f, NEW S, IsFiniteSet(S), \A x \in S : f[x] \in Nat, NEW P \in SUBSET S
    PROVE  SumFunctionOnSet(f, S) = SumFunctionOnSet(f, P) + SumFunctionOnSet(f, S \ P)
<1> DEFINE Sum(T) == SumFunctionOnSet(f, T)
           B == {T \in SUBSET P : Sum(S) = Sum(T) + Sum(S \ T)}
<1>0. IsFiniteSet(P)
  BY FS_Subset, Zenon
<1>1. ASSUME NEW T \in SUBSET P, \A U \in SUBSET T : U # T => U \in B
      PROVE  T \in B
  <2>0. \A U \in SUBSET S : IsFiniteSet(U) /\ Sum(U) \in Nat
    BY FS_Subset, SumIsNumber, Zenon
  <2>1. CASE T = {}
    <3>1. Sum({}) = 0
      BY FS_EmptySet, SumIsTotal, Zenon DEF Total
    <3>2. S \ T = S /\ Sum(S) \in Nat
      BY <2>0, <2>1, Zenon
    <3> QED
      BY <3>1, <3>2, <2>1
  <2>2. CASE T # {}
    <3>1. PICK x : x \in T
      BY <2>2, Zenon
    <3>2. Sum(S) = Sum(T \ {x}) + Sum(S \ (T \ {x}))
      BY <3>1, <1>1, Zenon
    <3>3. Sum(T) = f[x] + Sum(T \ {x})
      BY <3>1, <2>0, SumTakesOut
    <3>4. Sum(S \ (T \ {x})) = f[x] + Sum(S \ T)
      <4> DEFINE V == S \ (T \ {x})
      <4>1. V \in SUBSET S /\ x \in V /\ V \ {x} = S \ T
        BY <3>1, Zenon
      <4> HIDE DEF V
      <4>2. \A z \in V : Sum(V) = f[z] + Sum(V \ {z})
        BY <4>1, <2>0, SumTakesOut
      <4>3. Sum(V) = f[x] + Sum(S \ T)
        BY <4>1, <4>2, Zenon
      <4> QED
        BY <4>3, Zenon DEF V
    <3>5. Sum(T \ {x}) \in Nat /\ Sum(S \ T) \in Nat /\ f[x] \in Nat
      BY <2>0, <3>1, Zenon
    <3> QED
      BY <3>2, <3>3, <3>4, <3>5
  <2> QED
    BY <2>1, <2>2, Zenon
<1> HIDE DEF B
<1>2. P \in B
  BY <1>0, <1>1, SubsetInduction, Zenon
<1> QED
  BY <1>2, Zenon DEF B

\* Only what is summed matters.
LEMMA SumSame ==
    ASSUME NEW f, NEW g, NEW S, IsFiniteSet(S), \A x \in S : f[x] = g[x]
    PROVE  SumFunctionOnSet(f, S) = SumFunctionOnSet(g, S)
<1> DEFINE B == {T \in SUBSET S : SumFunctionOnSet(f, T) = SumFunctionOnSet(g, T)}
<1>1. ASSUME NEW T \in SUBSET S, \A U \in SUBSET T : U # T => U \in B
      PROVE  T \in B
  <2>1. SumFunctionOnSet(f, T) = Total(f, T) /\ SumFunctionOnSet(g, T) = Total(g, T)
    BY FS_Subset, SumIsTotal, Zenon
  <2>2. CASE T = {}
    BY <2>1, <2>2, Zenon DEF Total
  <2>3. CASE T # {}
    <3>1. Member(T) \in T
      BY <2>3, Zenon DEF Member
    <3>2. SumFunctionOnSet(f, T \ {Member(T)}) = SumFunctionOnSet(g, T \ {Member(T)})
      BY <3>1, <1>1, Zenon
    <3>3. f[Member(T)] = g[Member(T)]
      BY <3>1, Zenon
    <3> QED
      BY <2>1, <2>3, <3>2, <3>3, Zenon DEF Total
  <2> QED
    BY <2>2, <2>3, Zenon
<1> HIDE DEF B
<1>2. S \in B
  BY <1>1, SubsetInduction, Zenon
<1> QED
  BY <1>2, Zenon DEF B

-----------------------------------------------------------------------------
(***************************************************************************)
(* The queue, and the digits of a number.                                  *)
(***************************************************************************)

\* g lists, for every prefix of the queue q, what erasing S leaves of it.
Keeps(q, S, g, m) ==
    g = [i \in 0 .. m |-> IF i = 0 THEN <<>>
                          ELSE IF q[i] \in S THEN g[i - 1]
                          ELSE Append(g[i - 1], q[i])]

\* QueueWithout, as the recursive function it is.
LEMMA QueueUnfolded ==
    ASSUME NEW S
    PROVE  QueueWithout(S) = (CHOOSE g : Keeps(lruQueue, S, g, Len(lruQueue)))[Len(lruQueue)]
BY Zenon DEF QueueWithout, Keeps

\* Erasing is defined for every queue.
LEMMA KeepsExists ==
    ASSUME NEW q, NEW S
    PROVE  \A m \in Nat : \E g : Keeps(q, S, g, m)
<1> DEFINE N == {m \in Nat : \E g : Keeps(q, S, g, m)}
<1>1. ASSUME NEW m \in Nat, \A k \in Nat : k < m => k \in N
      PROVE  m \in N
  <2>1. CASE m = 0
    <3> DEFINE g == [i \in 0 .. 0 |-> <<>>]
    <3>1. Keeps(q, S, g, 0)
      BY DEF Keeps
    <3> QED
      BY <2>1, <3>1, Zenon
  <2>2. CASE m > 0
    <3>1. PICK h : Keeps(q, S, h, m - 1)
      BY <2>2, <1>1
    <3> DEFINE g == [i \in 0 .. m |-> IF i = 0 THEN <<>>
                                      ELSE IF q[i] \in S THEN h[i - 1]
                                      ELSE Append(h[i - 1], q[i])]
    <3>2. \A i \in 0 .. (m - 1) : h[i] = IF i = 0 THEN <<>> ELSE IF q[i] \in S THEN h[i - 1] ELSE Append(h[i - 1], q[i])
      BY <3>1, Zenon DEF Keeps
    <3>3. \A i \in 0 .. m : i # 0 => g[i - 1] = h[i - 1]
      <4> SUFFICES ASSUME NEW i \in 0 .. m, i # 0 PROVE g[i - 1] = h[i - 1]
        BY Zenon
      <4>1. i - 1 \in 0 .. (m - 1) /\ i - 1 \in 0 .. m
        OBVIOUS
      <4> QED
        BY <4>1, <3>2, Zenon
    <3>4. Keeps(q, S, g, m)
      BY <3>3, Zenon DEF Keeps
    <3> QED
      BY <3>4, Zenon
  <2> QED
    BY <2>1, <2>2
<1> HIDE DEF N
<1>2. \A m \in Nat : m \in N
  BY <1>1, NumberInduction, Zenon
<1> QED
  BY <1>2, Zenon DEF N

Once(s) == \A i, j \in DOMAIN s : s[i] = s[j] => i = j

\* s holds the first m entries of q that are not in S.
Filtered(q, K, S, m, s) ==
    /\ s \in Seq(K)
    /\ {s[i] : i \in DOMAIN s} = {q[i] : i \in 1 .. m} \ S
    /\ Once(q) => Once(s)

\* One more entry that is not erased.
LEMMA FilteredAppend ==
    ASSUME NEW K, NEW q \in Seq(K), NEW S, NEW m \in 1 .. Len(q), NEW s,
           Filtered(q, K, S, m - 1, s), q[m] \notin S
    PROVE  Filtered(q, K, S, m, Append(s, q[m]))
<1> DEFINE a == Append(s, q[m])
<1>1. s \in Seq(K) /\ q[m] \in K
  BY DEF Filtered
<1>2. /\ a \in Seq(K) /\ Len(s) \in Nat
      /\ DOMAIN a = DOMAIN s \cup {Len(s) + 1} /\ DOMAIN s = 1 .. Len(s)
      /\ \A i \in DOMAIN s : a[i] = s[i]
      /\ a[Len(s) + 1] = q[m]
  BY <1>1
<1> HIDE DEF a
<1>3. {a[i] : i \in DOMAIN a} = {q[i] : i \in 1 .. m} \ S
  <2>1. {a[i] : i \in DOMAIN a} = {s[i] : i \in DOMAIN s} \cup {q[m]}
    BY <1>2, Zenon
  <2>2. {q[i] : i \in 1 .. m} = {q[i] : i \in 1 .. (m - 1)} \cup {q[m]}
    OBVIOUS
  <2> QED
    BY <2>1, <2>2, Zenon DEF Filtered
<1>4. ASSUME Once(q) PROVE Once(a)
  <2>1. Once(s)
    BY <1>4, Zenon DEF Filtered
  <2>2. \A i \in 1 .. (m - 1) : q[i] # q[m]
    BY <1>4 DEF Once
  <2>3. \A i \in DOMAIN s : s[i] # q[m]
    BY <2>2, Zenon DEF Filtered
  <2> QED
    BY <2>1, <2>3, <1>2, Zenon DEF Once
<1> QED
  BY <1>2, <1>3, <1>4, Zenon DEF Filtered, a

\* What is left in the queue: the entries not erased, still once each.
LEMMA QueueWithoutFacts ==
    ASSUME NEW K, lruQueue \in Seq(K), NEW S
    PROVE  /\ QueueWithout(S) \in Seq(K)
           /\ {QueueWithout(S)[i] : i \in DOMAIN QueueWithout(S)} = {lruQueue[i] : i \in DOMAIN lruQueue} \ S
           /\ Once(lruQueue) => Once(QueueWithout(S))
<1> DEFINE n == Len(lruQueue)
           g == CHOOSE h : Keeps(lruQueue, S, h, n)
           N == {m \in Nat : m <= n => Filtered(lruQueue, K, S, m, g[m])}
<1>1. n \in Nat /\ DOMAIN lruQueue = 1 .. n
  OBVIOUS
<1>2. Keeps(lruQueue, S, g, n)
  BY <1>1, KeepsExists, Zenon
<1>3. QueueWithout(S) = g[n]
  BY QueueUnfolded, Zenon
<1> HIDE DEF g
<1>4. \A i \in 0 .. n : g[i] = IF i = 0 THEN <<>> ELSE IF lruQueue[i] \in S THEN g[i - 1] ELSE Append(g[i - 1], lruQueue[i])
  BY <1>2, Zenon DEF Keeps
<1>5. ASSUME NEW m \in Nat, \A k \in Nat : k < m => k \in N
      PROVE  m \in N
  <2> SUFFICES ASSUME m <= n PROVE Filtered(lruQueue, K, S, m, g[m])
    BY Zenon
  <2>1. CASE m = 0
    <3>1. g[m] = <<>>
      BY <2>1, <1>4
    <3> QED
      BY <2>1, <3>1 DEF Filtered, Once
  <2>2. CASE m > 0
    <3>1. m \in 1 .. n /\ m - 1 \in Nat /\ m - 1 < m
      BY <2>2, <1>1
    <3>2. Filtered(lruQueue, K, S, m - 1, g[m - 1])
      BY <3>1, <1>5, <1>1
    <3>3. g[m] = IF lruQueue[m] \in S THEN g[m - 1] ELSE Append(g[m - 1], lruQueue[m])
      BY <3>1, <1>4
    <3>4. CASE lruQueue[m] \in S
      <4>1. {lruQueue[i] : i \in 1 .. m} = {lruQueue[i] : i \in 1 .. (m - 1)} \cup {lruQueue[m]}
        BY <3>1
      <4> QED
        BY <4>1, <3>2, <3>3, <3>4 DEF Filtered
    <3>5. CASE lruQueue[m] \notin S
      BY <3>1, <3>2, <3>3, <3>5, FilteredAppend, Zenon
    <3> QED
      BY <3>4, <3>5, Zenon
  <2> QED
    BY <2>1, <2>2, <1>1
<1> HIDE DEF N
<1>6. n \in N
  BY <1>1, <1>5, NumberInduction, Zenon
<1>7. Filtered(lruQueue, K, S, n, g[n])
  BY <1>1, <1>6 DEF N
<1> QED
  BY <1>1, <1>3, <1>7, Zenon DEF Filtered

\* g gives the digits of the numbers in D.
Writes(g, D) ==
    g = [n \in D |-> IF n < 10 THEN <<n>> ELSE Append(g[n \div 10], n % 10)]

\* Digits, as the recursive function it is.
LEMMA DigitsUnfolded == Digits = CHOOSE g : Writes(g, Nat)
BY Zenon DEF Digits, Writes

\* A number without its last digit is a smaller number.
LEMMA DivSmaller ==
    ASSUME NEW n \in Nat, ~(n < 10)
    PROVE  n \div 10 \in Nat /\ n \div 10 < n /\ n % 10 \in Nat
OBVIOUS

\* The recursion that defines Digits has a solution.
LEMMA DigitsRecursion == Writes(Digits, Nat)
<1> DEFINE Below(m) == 0 .. m
           N == {m \in Nat : \E g : Writes(g, Below(m))}
<1>1. ASSUME NEW m \in Nat, \A k \in Nat : k < m => k \in N
      PROVE  m \in N
  <2>1. CASE m = 0
    <3> DEFINE g == [i \in Below(0) |-> <<i>>]
    <3>1. Writes(g, Below(0))
      BY DEF Writes
    <3> QED
      BY <2>1, <3>1, Zenon
  <2>2. CASE m > 0
    <3>1. PICK h : Writes(h, Below(m - 1))
      BY <2>2, <1>1
    <3> DEFINE g == [n \in Below(m) |-> IF n < 10 THEN <<n>> ELSE Append(h[n \div 10], n % 10)]
    <3>2. \A n \in Below(m - 1) : h[n] = IF n < 10 THEN <<n>> ELSE Append(h[n \div 10], n % 10)
      BY <3>1, Zenon DEF Writes
    <3>3. \A n \in Below(m) : ~(n < 10) => g[n \div 10] = h[n \div 10]
      <4> SUFFICES ASSUME NEW n \in Below(m), ~(n < 10) PROVE g[n \div 10] = h[n \div 10]
        BY Zenon
      <4>1. n \div 10 \in Below(m - 1) /\ n \div 10 \in Below(m)
        BY DivSmaller
      <4> QED
        BY <4>1, <3>2, Zenon
    <3>4. Writes(g, Below(m))
      BY <3>3, Zenon DEF Writes
    <3> QED
      BY <3>4, Zenon
  <2> QED
    BY <2>1, <2>2
<1>2. \A m \in Nat : \E g : Writes(g, Below(m))
  <2> HIDE DEF N
  <2>1. \A m \in Nat : m \in N
    BY <1>1, NumberInduction, Zenon
  <2> QED
    BY <2>1, Zenon DEF N
<1> DEFINE G(m) == CHOOSE g : Writes(g, Below(m))
<1>3. \A m \in Nat : Writes(G(m), Below(m))
  BY <1>2, Zenon
<1> HIDE DEF G
<1>4. \A m \in Nat : \A n \in Below(m) : G(m)[n] = IF n < 10 THEN <<n>> ELSE Append(G(m)[n \div 10], n % 10)
  BY <1>3, Zenon DEF Writes
<1> DEFINE A == {n \in Nat : \A m \in Nat : n <= m => G(m)[n] = G(n)[n]}
<1>5. ASSUME NEW n \in Nat, \A k \in Nat : k < n => k \in A
      PROVE  n \in A
  <2> SUFFICES ASSUME NEW m \in Nat, n <= m PROVE G(m)[n] = G(n)[n]
    BY Zenon
  <2>1. n \in Below(m) /\ n \in Below(n)
    OBVIOUS
  <2>2. CASE n < 10
    <3>1. G(m)[n] = <<n>>
      BY <2>1, <2>2, <1>4, Zenon
    <3>2. G(n)[n] = <<n>>
      BY <2>1, <2>2, <1>4, Zenon
    <3> QED
      BY <3>1, <3>2, Zenon
  <2>3. CASE ~(n < 10)
    <3>1. n \div 10 \in Nat /\ n \div 10 < n
      BY <2>3, DivSmaller, Zenon
    <3>2. n \div 10 \in A
      BY <3>1, <1>5, Zenon
    <3>3. G(m)[n \div 10] = G(n)[n \div 10]
      BY <3>1, <3>2
    <3> HIDE DEF Below
    <3> QED
      BY <2>1, <2>3, <3>3, <1>4, Zenon
  <2> QED
    BY <2>2, <2>3, Zenon
<1>6. \A n \in Nat : n \in A
  <2> HIDE DEF A
  <2> QED
    BY <1>5, NumberInduction, Zenon
<1> DEFINE F == [n \in Nat |-> G(n)[n]]
<1>7. Writes(F, Nat)
  <2>1. ASSUME NEW n \in Nat
        PROVE  F[n] = IF n < 10 THEN <<n>> ELSE Append(F[n \div 10], n % 10)
    <3>1. F[n] = IF n < 10 THEN <<n>> ELSE Append(G(n)[n \div 10], n % 10)
      BY <1>4
    <3>2. ~(n < 10) => G(n)[n \div 10] = F[n \div 10]
      <4> SUFFICES ASSUME ~(n < 10) PROVE G(n)[n \div 10] = F[n \div 10]
        BY Zenon
      <4>1. n \div 10 \in Nat /\ n \div 10 < n /\ n \div 10 \in A
        BY <1>6, DivSmaller, Zenon
      <4> QED
        BY <4>1
    <3> QED
      BY <3>1, <3>2, Zenon
  <2> HIDE DEF F
  <2>2. F = [n \in Nat |-> F[n]]
    BY Zenon DEF F
  <2> QED
    BY <2>1, <2>2, Zenon DEF Writes
<1> HIDE DEF F
<1> QED
  BY <1>7, DigitsUnfolded, Zenon

\* A number has a first digit.
LEMMA DigitsFacts ==
    ASSUME NEW n \in Nat
    PROVE  Digits[n] \in Seq(Nat) /\ Len(Digits[n]) > 0
<1> DEFINE N == {k \in Nat : Digits[k] \in Seq(Nat) /\ Len(Digits[k]) > 0}
<1>1. \A k \in Nat : Digits[k] = IF k < 10 THEN <<k>> ELSE Append(Digits[k \div 10], k % 10)
  BY DigitsRecursion, Zenon DEF Writes
<1>2. ASSUME NEW k \in Nat, \A j \in Nat : j < k => j \in N
      PROVE  k \in N
  <2>1. CASE k < 10
    <3>1. Digits[k] = <<k>>
      BY <2>1, <1>1, Zenon
    <3>2. <<k>> \in Seq(Nat) /\ Len(<<k>>) > 0
      OBVIOUS
    <3> QED
      BY <3>1, <3>2, Zenon
  <2>2. CASE ~(k < 10)
    <3> DEFINE d == Digits[k \div 10]
               r == k % 10
    <3>1. d \in Seq(Nat) /\ r \in Nat
      BY <2>2, <1>2, DivSmaller, Zenon
    <3>2. Digits[k] = Append(d, r)
      BY <2>2, <1>1, Zenon
    <3> HIDE DEF d, r
    <3>3. Append(d, r) \in Seq(Nat) /\ Len(Append(d, r)) > 0
      BY <3>1
    <3> QED
      BY <3>2, <3>3, Zenon
  <2> QED
    BY <2>1, <2>2, Zenon
<1> HIDE DEF N
<1>3. n \in N
  BY <1>2, NumberInduction, Zenon
<1> QED
  BY <1>3, Zenon DEF N

-----------------------------------------------------------------------------
(***************************************************************************)
(* The inductive invariant, by what its parts speak of.                    *)
(***************************************************************************)

\* Map, queue and accounting of the cache.
CacheShape ==
    /\ DOMAIN cacheMap \subseteq Key
    /\ \A key \in DOMAIN cacheMap : cacheMap[key] \in [ptr: Ptr, size: Nat \ {0}, data: Nat]
    /\ lruQueue \in Seq(Key)
    /\ usedSize \in Nat
    /\ UsedSizeExact /\ QueueMatchesMap

\* Every live region has an owner: an entry, a register, the call that has
\* not stored it yet, another query, or nobody that remembers it.
AllOwned == DOMAIN heap = CachePtrs \cup owned \cup others \cup lost \cup ({call.held} \ {NoPtr})

\* It has one owner only.
OneOwner ==
    /\ CachePtrs \cap (owned \cup others \cup lost \cup {call.held}) = {}
    /\ owned \cap (others \cup lost \cup {call.held}) = {}
    /\ others \cap (lost \cup {call.held}) = {}
    /\ call.held \notin lost

\* Each entry has a region of its size for itself.
RegionsOfEntries ==
    \A key \in DOMAIN cacheMap :
        /\ heap[cacheMap[key].ptr] = Memory!Rounded(cacheMap[key].size)
        /\ \A k \in DOMAIN cacheMap : cacheMap[k].ptr = cacheMap[key].ptr => k = key

HeapTyped == DOMAIN heap \subseteq Ptr /\ \A p \in DOMAIN heap : heap[p] \in Nat \ {0}

MemoryOwned == AllOwned /\ OneOwner /\ RegionsOfEntries /\ HeapTyped

\* What the thread relies on between the steps of a call: the key it loads is
\* not cached, is that of its block, and fits once it has passed the check.
CallSound ==
    /\ call.place \in {"idle", "running", "find space", "allocate", "alloc", "alloc data"}
    /\ call.held \in Ptr \cup {NoPtr}
    /\ call.place = "idle" => call = Idle /\ owned = {} /\ cached = {}
    /\ call.place = "running" => call = Running
    /\ call.place # "alloc" => call.held = NoPtr
    /\ call.place \in {"alloc", "alloc data"} => call.arg \in Nat
    /\ call.place \in {"find space", "allocate"} =>
        /\ call.arg \in Key \ DOMAIN cacheMap
        /\ call.arg[1] \in lockList
        /\ call.arg[2] = currentBlockIndex /\ currentBlockIndex < Len(host)
    /\ call.place = "allocate" => usedSize + Size(call.arg) <= MaxSize

\* The registers that point into the cache are of the running block.
RegistersSound ==
    /\ cached \subseteq Key \X Ptr
    /\ \A reg \in cached : reg[1][1] \in lockList /\ reg[1][2] = currentBlockIndex
    /\ LockedColumnsStay

\* The blocks of the table and of the running query.
TableSound ==
    /\ lockList \subseteq Columns /\ currentBlockIndex \in Nat /\ span \in Spans
    /\ call.place # "idle" => currentBlockIndex % DeviceCount = Device
    /\ host \in Seq(1 .. MaxWrites) /\ Len(host) <= MaxBlocks
    /\ writes \in 0 .. MaxWrites /\ dropped \in 0 .. writes
    /\ \A i \in DOMAIN host : host[i] <= writes

\* A copy is of a block of this device, and of what the table holds unless
\* the table was dropped since.
CopiesCurrent ==
    \A key \in DOMAIN cacheMap :
        /\ key[2] % DeviceCount = Device
        /\ cacheMap[key].data <= writes
        /\ cacheMap[key].data > dropped =>
            key[2] < Len(host) /\ cacheMap[key].data = host[key[2] + 1]

CacheInv ==
    /\ CacheShape /\ MemoryOwned /\ CallSound
    /\ RegistersSound /\ TableSound /\ CopiesCurrent /\ owned \subseteq Ptr /\ lost \subseteq Ptr /\ others \subseteq Ptr

\* The invariant says all that the runs check.
LEMMA CacheInvImplies == CacheInv => CacheConsistent /\ CachedBlocksCurrent /\ LockedColumnsStay
<1> SUFFICES ASSUME CacheInv PROVE CacheConsistent /\ CachedBlocksCurrent /\ LockedColumnsStay
  BY Zenon
<1>1. TypeOK
  BY Zenon DEF CacheInv, TypeOK, CacheShape, MemoryOwned, HeapTyped, CallSound, RegistersSound, TableSound
<1>2. UsedSizeExact /\ QueueMatchesMap
  BY Zenon DEF CacheInv, CacheShape
<1>3. EntriesOwnMemory
  BY Zenon DEF CacheInv, MemoryOwned, AllOwned, OneOwner, RegionsOfEntries, EntriesOwnMemory, CachePtrs
<1>4. AllBuffersCleared
  BY DEF CacheInv, MemoryOwned, AllOwned, CallSound, AllBuffersCleared, Idle, At
<1>5. CachedBlocksCurrent
  BY Zenon DEF CacheInv, CopiesCurrent, CachedBlocksCurrent
<1>6. LockedColumnsStay
  BY Zenon DEF CacheInv, RegistersSound
<1> QED
  BY <1>1, <1>2, <1>3, <1>4, <1>5, <1>6, Zenon DEF CacheConsistent

\* An empty cache of an empty table, and no query.
LEMMA InitSound == Init => CacheInv
<1> SUFFICES ASSUME Init PROVE CacheInv
  BY Zenon
<1> USE DEF Init
<1>1. CacheShape
  <2>1. DOMAIN cacheMap = {} /\ lruQueue = <<>> /\ usedSize = 0
    BY Zenon
  <2>2. UsedSizeExact
    <3> DEFINE f == [key \in DOMAIN cacheMap |-> cacheMap[key].size]
    <3>1. DOMAIN f = {}
      BY <2>1, Zenon
    <3> HIDE DEF f
    <3>2. SumFunction(f) = 0
      BY <3>1, FS_EmptySet, SumIsTotal, Zenon DEF SumFunction, Total
    <3> QED
      BY <3>2, <2>1, CacheAssumption DEF UsedSizeExact, f
  <2> QED
    BY <2>1, <2>2 DEF CacheShape, QueueMatchesMap
<1>2. MemoryOwned
  BY Zenon DEF MemoryOwned, AllOwned, OneOwner, RegionsOfEntries, HeapTyped, CachePtrs, Idle, At
<1>3. CallSound
  BY Zenon DEF CallSound, Idle, Running, At
<1>4. RegistersSound
  BY Zenon DEF RegistersSound, LockedColumnsStay
<1>5. TableSound
  BY CacheAssumption DEF TableSound, Idle, At
<1>6. CopiesCurrent
  BY Zenon DEF CopiesCurrent
<1> QED
  BY <1>1, <1>2, <1>3, <1>4, <1>5, <1>6, Zenon DEF CacheInv

-----------------------------------------------------------------------------
(***************************************************************************)
(* Changes of the cache.                                                   *)
(***************************************************************************)

\* The cache is finite, being listed by its queue.
LEMMA CacheFinite ==
    ASSUME CacheShape
    PROVE  IsFiniteSet(DOMAIN cacheMap)
<1>1. lruQueue \in [1 .. Len(lruQueue) -> DOMAIN cacheMap] /\ Len(lruQueue) \in Nat
  BY DEF CacheShape, QueueMatchesMap
<1>2. \A key \in DOMAIN cacheMap : \E i \in 1 .. Len(lruQueue) : lruQueue[i] = key
  BY DEF CacheShape, QueueMatchesMap
<1>3. ExistsSurjection(1 .. Len(lruQueue), DOMAIN cacheMap)
  BY <1>1, <1>2, Zenon DEF ExistsSurjection, Surjection
<1> QED
  BY <1>1, <1>3, FS_NatSurjection, Zenon

\* Entries that leave take their bytes with them and nothing else.
LEMMA DropShape ==
    ASSUME CacheShape, NEW S \in SUBSET (DOMAIN cacheMap), Drop(S)
    PROVE  CacheShape' /\ usedSize' <= usedSize
<1> DEFINE D == DOMAIN cacheMap
           f == [key \in D |-> cacheMap[key].size]
           fS == [key \in S |-> cacheMap[key].size]
           g == [key \in DOMAIN cacheMap' |-> cacheMap'[key].size]
<1>1. DOMAIN cacheMap' = D \ S /\ \A key \in D \ S : cacheMap'[key] = cacheMap[key]
  BY Zenon DEF Drop, Without
<1>2. IsFiniteSet(D) /\ \A key \in D : f[key] \in Nat
  BY CacheFinite, Zenon DEF CacheShape
<1>3. usedSize = SumFunctionOnSet(f, D)
  BY Zenon DEF CacheShape, UsedSizeExact, SumFunction
<1>4. usedSize' = usedSize - SumFunctionOnSet(fS, S)
  BY Zenon DEF Drop, UsedWithout
<1>5. (\A key \in S : f[key] = fS[key]) /\ (\A key \in D \ S : f[key] = g[key]) /\ DOMAIN g = D \ S
  BY <1>1, Zenon
<1>6. SumFunction(g) = SumFunctionOnSet(g, D \ S)
  BY <1>5, Zenon DEF SumFunction
<1> HIDE DEF f, g, fS
<1>7. IsFiniteSet(S) /\ IsFiniteSet(D \ S)
  BY <1>2, FS_Subset, Zenon
<1>8. SumFunctionOnSet(f, S) = SumFunctionOnSet(fS, S) /\ SumFunctionOnSet(f, D \ S) = SumFunctionOnSet(g, D \ S)
  BY <1>5, <1>7, SumSame
<1>9. SumFunctionOnSet(f, D) = SumFunctionOnSet(f, S) + SumFunctionOnSet(f, D \ S)
  BY <1>2, SumSplits
<1>10. SumFunctionOnSet(f, S) \in Nat /\ SumFunctionOnSet(f, D \ S) \in Nat
  BY <1>2, <1>7, SumIsNumber, Zenon
<1>11. usedSize' = SumFunction(g) /\ usedSize' \in Nat /\ usedSize' <= usedSize
  BY <1>3, <1>4, <1>6, <1>8, <1>9, <1>10
<1>12. UsedSizeExact'
  BY <1>11, CacheAssumption DEF UsedSizeExact, g, CacheShape
<1>13. lruQueue' \in Seq(Key) /\ QueueMatchesMap'
  <2>1. lruQueue \in Seq(Key) /\ Once(lruQueue) /\ lruQueue' = QueueWithout(S) /\ D = {lruQueue[i] : i \in DOMAIN lruQueue}
    BY Zenon DEF CacheShape, QueueMatchesMap, Drop, Once
  <2>2. lruQueue' \in Seq(Key) /\ Once(lruQueue') /\ {lruQueue'[i] : i \in DOMAIN lruQueue'} = D \ S
    BY <2>1, QueueWithoutFacts
  <2> QED
    BY <2>2, <1>1, Zenon DEF QueueMatchesMap, Once
<1>14. DOMAIN cacheMap' \subseteq Key /\ \A key \in DOMAIN cacheMap' : cacheMap'[key] \in [ptr: Ptr, size: Nat \ {0}, data: Nat]
  BY <1>1, Zenon DEF CacheShape
<1> QED
  BY <1>11, <1>12, <1>13, <1>14, Zenon DEF CacheShape

-----------------------------------------------------------------------------
(***************************************************************************)
(* Changes of the memory.                                                  *)
(***************************************************************************)

\* Memory granted was nobody's.
LEMMA GrantIsFresh ==
    ASSUME MemoryOwned, NEW n \in Nat \ {0}, NEW p \in Places(n)
    PROVE  p \in Ptr /\ p \notin DOMAIN heap /\ Memory!Rounded(n) \in Nat \ {0}
<1>1. n % Unit \in 0 .. (Unit - 1)
  BY CacheAssumption
<1>2. Memory!Rounded(n) \in Nat \ {0}
  BY <1>1, CacheAssumption DEF Memory!Rounded
<1>3. p \in Ptr /\ Memory!Gap(p, Memory!Rounded(n))
  BY Zenon DEF Places
<1>4. p \in Int
  BY <1>3, CacheAssumption DEF Ptr, Memory!Address
<1>5. ASSUME p \in DOMAIN heap PROVE FALSE
  <2>1. heap[p] \in Nat \ {0}
    BY <1>5, Zenon DEF MemoryOwned, HeapTyped
  <2>2. p + Memory!Rounded(n) <= p \/ p + heap[p] <= p
    BY <1>3, <1>5, Zenon DEF Memory!Gap
  <2> QED
    BY <1>2, <1>4, <2>1, <2>2
<1> QED
  BY <1>2, <1>3, <1>5, Zenon

\* The value that stands for no pointer is not an address.
LEMMA NoPtrIsNone == NoPtr \notin Ptr
BY CacheAssumption DEF NoPtr, Ptr, Memory!Address

\* Entries that leave give their memory back.
LEMMA DropMemory ==
    ASSUME MemoryOwned, NEW S \in SUBSET (DOMAIN cacheMap), Drop(S),
           UNCHANGED <<call, owned, lost, others>>
    PROVE  MemoryOwned'
<1> DEFINE gone == {cacheMap[key].ptr : key \in S}
<1>1. DOMAIN cacheMap' = DOMAIN cacheMap \ S /\ \A key \in DOMAIN cacheMap \ S : cacheMap'[key] = cacheMap[key]
  BY Zenon DEF Drop, Without
<1>2. DOMAIN heap' = DOMAIN heap \ gone /\ \A p \in DOMAIN heap \ gone : heap'[p] = heap[p]
  BY Zenon DEF Drop, MemoryWithout, Deallocated, Without
<1>3. gone \subseteq CachePtrs
  BY Zenon DEF CachePtrs
<1>4. \A key \in DOMAIN cacheMap \ S : cacheMap[key].ptr \notin gone
  BY DEF MemoryOwned, RegionsOfEntries
<1>5. CachePtrs' = CachePtrs \ gone
  BY <1>1, <1>4, Zenon DEF CachePtrs
<1>6. \A key \in DOMAIN cacheMap' : cacheMap'[key].ptr \in DOMAIN heap \ gone
  BY <1>1, <1>4, Zenon DEF MemoryOwned, AllOwned, CachePtrs
<1> HIDE DEF gone
<1>7. AllOwned'
  BY <1>2, <1>3, <1>5, Zenon DEF MemoryOwned, AllOwned, OneOwner
<1>8. RegionsOfEntries'
  BY <1>1, <1>2, <1>6, Zenon DEF MemoryOwned, RegionsOfEntries
<1>9. HeapTyped'
  BY <1>2, Zenon DEF MemoryOwned, HeapTyped
<1>10. OneOwner'
  BY <1>5, Zenon DEF MemoryOwned, OneOwner
<1> QED
  BY <1>7, <1>8, <1>9, <1>10, Zenon DEF MemoryOwned

\* The regions of the entries stay as they are when others come and go.
LEMMA EntriesKeepRegions ==
    ASSUME MemoryOwned, cacheMap' = cacheMap, \A p \in CachePtrs : heap'[p] = heap[p]
    PROVE  RegionsOfEntries' /\ CachePtrs' = CachePtrs
<1>1. \A key \in DOMAIN cacheMap : heap'[cacheMap[key].ptr] = heap[cacheMap[key].ptr]
  BY Zenon DEF CachePtrs
<1>2. RegionsOfEntries'
  BY <1>1, Zenon DEF MemoryOwned, RegionsOfEntries
<1>3. CachePtrs' = CachePtrs
  BY Zenon DEF CachePtrs
<1> QED
  BY <1>2, <1>3, Zenon

\* A step that touches no memory.
LEMMA SameMemory ==
    ASSUME MemoryOwned, UNCHANGED <<cacheMap, owned, lost, others, heap>>, call'.held = call.held
    PROVE  MemoryOwned'
<1>1. RegionsOfEntries' /\ CachePtrs' = CachePtrs
  BY EntriesKeepRegions, Zenon
<1>2. AllOwned' /\ OneOwner' /\ HeapTyped'
  BY <1>1, Zenon DEF MemoryOwned, AllOwned, OneOwner, HeapTyped
<1> QED
  BY <1>1, <1>2, Zenon DEF MemoryOwned

\* Cleaning up frees the registers and nothing else; a pointer the call had
\* not stored yet is lost.
LEMMA CleanMemory ==
    ASSUME MemoryOwned, owned \subseteq Ptr, CleanUp, UNCHANGED <<cacheMap, others>>,
           lost' = lost \cup ({call.held} \ {NoPtr}), call'.held = NoPtr, lost \cup others \subseteq Ptr
    PROVE  MemoryOwned'
<1>1. DOMAIN heap' = DOMAIN heap \ owned /\ \A p \in DOMAIN heap \ owned : heap'[p] = heap[p]
  BY Zenon DEF CleanUp, ReleaseRegisters, Deallocated, Without
<1>2. owned' = {}
  BY Zenon DEF CleanUp
<1>3. CachePtrs \subseteq DOMAIN heap \ owned
  BY Zenon DEF MemoryOwned, AllOwned, OneOwner
<1>4. RegionsOfEntries' /\ CachePtrs' = CachePtrs
  BY <1>1, <1>3, EntriesKeepRegions, Zenon
<1>5. AllOwned'
  BY <1>1, <1>2, <1>4, Zenon DEF MemoryOwned, AllOwned, OneOwner
<1>6. HeapTyped'
  BY <1>1, Zenon DEF MemoryOwned, HeapTyped
<1>7. NoPtr \notin CachePtrs \cup others \cup lost
  BY <1>3, NoPtrIsNone, Zenon DEF MemoryOwned, HeapTyped
<1>8. OneOwner'
  BY <1>2, <1>4, <1>7, Zenon DEF MemoryOwned, OneOwner
<1> QED
  BY <1>4, <1>5, <1>6, <1>8, Zenon DEF MemoryOwned

\* Memory granted to a register, to the call or to another query.
LEMMA GrantMemory ==
    ASSUME MemoryOwned, NEW n \in Nat \ {0}, NEW p \in Places(n), heap' = Allocated(n, p),
           UNCHANGED <<cacheMap, lost>>, lost \subseteq Ptr, others \subseteq Ptr, owned \subseteq Ptr,
           \/ owned' = owned \cup ({p, call.held} \ {NoPtr}) /\ call'.held = NoPtr /\ others' = others
           \/ owned' = owned /\ call.held = NoPtr /\ call'.held = p /\ others' = others
           \/ owned' = owned /\ call'.held = call.held /\ others' = others \cup {p}
    PROVE  MemoryOwned'
<1>0. p \in Ptr /\ p \notin DOMAIN heap /\ Memory!Rounded(n) \in Nat \ {0}
  BY GrantIsFresh, Zenon
<1>1. DOMAIN heap' = DOMAIN heap \cup {p} /\ heap'[p] = Memory!Rounded(n) /\ \A q \in DOMAIN heap : heap'[q] = heap[q]
  BY <1>0, Zenon DEF Allocated, With
<1>2. CachePtrs \subseteq DOMAIN heap
  BY Zenon DEF MemoryOwned, AllOwned
<1>3. RegionsOfEntries' /\ CachePtrs' = CachePtrs
  BY <1>1, <1>2, EntriesKeepRegions, Zenon
<1>4. HeapTyped'
  BY <1>0, <1>1, Zenon DEF MemoryOwned, HeapTyped
<1>5. p # NoPtr
  BY <1>0, NoPtrIsNone, Zenon
<1>6. AllOwned'
  BY <1>1, <1>3, <1>5 DEF MemoryOwned, AllOwned
<1>7. p \notin CachePtrs \cup owned \cup others \cup lost \cup {call.held}
  BY <1>0, <1>5, Zenon DEF MemoryOwned, AllOwned
<1>8. NoPtr \notin CachePtrs \cup owned \cup others \cup lost
  BY NoPtrIsNone, <1>2, Zenon DEF MemoryOwned, HeapTyped
<1>9. OneOwner'
  BY <1>3, <1>5, <1>7, <1>8 DEF MemoryOwned, OneOwner
<1> QED
  BY <1>3, <1>4, <1>6, <1>9, Zenon DEF MemoryOwned

-----------------------------------------------------------------------------
(***************************************************************************)
(* The end of a call by an exception, and evictions.                       *)
(***************************************************************************)

\* However a call fails, the query leaves no register behind.
LEMMA ThrowSound ==
    ASSUME CacheInv, Throw, UNCHANGED <<cacheVars, queryVars, others, tableVars>>
    PROVE  CacheInv'
<1> USE DEF cacheVars, queryVars, tableVars
<1>1. lost' = lost \cup ({call.held} \ {NoPtr}) /\ call' = Idle /\ call'.held = NoPtr /\ owned' = {} /\ cached' = {}
  BY Zenon DEF Throw, CleanUp, Idle, At
<1>2. CacheShape'
  BY Zenon DEF CacheInv, CacheShape, UsedSizeExact, QueueMatchesMap
<1>3. MemoryOwned'
  BY <1>1, CleanMemory, Zenon DEF CacheInv, Throw
<1>4. CallSound'
  BY <1>1, Zenon DEF CallSound, Idle, At
<1>5. RegistersSound'
  BY <1>1, Zenon DEF RegistersSound, LockedColumnsStay
<1>6. TableSound'
  BY <1>1, Zenon DEF CacheInv, TableSound, Idle, At
<1>7. CopiesCurrent'
  BY Zenon DEF CacheInv, CopiesCurrent
<1>8. owned' \subseteq Ptr /\ lost' \subseteq Ptr /\ others' \subseteq Ptr
  BY <1>1, Zenon DEF CacheInv, CallSound
<1> QED
  BY <1>2, <1>3, <1>4, <1>5, <1>6, <1>7, <1>8, Zenon DEF CacheInv

\* What Evict chooses is in the cache and not locked.
LEMMA VictimFacts ==
    ASSUME CacheShape, Evictable # {}
    PROVE  Victim \in DOMAIN cacheMap /\ ~IsLocked(Victim)
<1>1. Evictable \in SUBSET Nat
  BY DEF CacheShape, Evictable
<1>2. \E i \in Evictable : \A j \in Evictable : i <= j
  BY <1>1, LeastNumber, Zenon
<1>3. PICK i \in Evictable : Victim = lruQueue[i]
  BY <1>2, Zenon DEF Victim
<1> QED
  BY <1>3, Zenon DEF Evictable, CacheShape, QueueMatchesMap

\* A copy of the running block whose key can be read is recognised as locked:
\* the first digit of the block index is in the key, and no later digit is.
LEMMA RegisterIsLocked ==
    ASSUME NEW key \in Key, key[1] \in lockList, key[2] = currentBlockIndex, currentBlockIndex \in Nat,
           DigitsApart(key)
    PROVE  IsLocked(key)
<1> DEFINE digits == KeyDigits(key)
           current == Digits[currentBlockIndex]
           size == Digits[key[3]]
           offset == Digits[key[4]]
<1>1. current \in Seq(Nat) /\ Len(current) > 0
  BY DigitsFacts, Zenon
<1>2. size \in Seq(Nat) /\ offset \in Seq(Nat)
  <2>1. key[3] \in Nat /\ key[4] \in Nat
    BY Zenon DEF Key
  <2> QED
    BY <2>1, DigitsFacts, Zenon
<1>3. digits = (current \o size) \o offset
  BY Zenon DEF KeyDigits
<1>4. \A i \in 2 .. Len(digits), j \in DOMAIN current : digits[i] # current[j]
  BY Zenon DEF DigitsApart
<1>5. key[1] \in lockList /\ ((\A i \in DOMAIN digits : (\E j \in DOMAIN current : current[j] = digits[i]) <=> i = 1) => IsLocked(key))
  BY Zenon DEF IsLocked
<1> HIDE DEF digits, current, size, offset
<1>6. digits \in Seq(Nat) /\ Len(digits) > 0 /\ digits[1] = current[1] /\ 1 \in DOMAIN current
  <2> DEFINE front == current \o size
  <2>1. front \in Seq(Nat) /\ Len(front) > 0 /\ front[1] = current[1] /\ 1 \in DOMAIN current
    BY <1>1, <1>2
  <2> HIDE DEF front
  <2>2. front \o offset \in Seq(Nat) /\ Len(front \o offset) > 0 /\ (front \o offset)[1] = front[1]
    BY <2>1, <1>2
  <2> QED
    BY <2>1, <2>2, <1>3, Zenon DEF front
<1>7. ASSUME NEW i \in DOMAIN digits
      PROVE  (\E j \in DOMAIN current : current[j] = digits[i]) <=> i = 1
  <2>1. CASE i = 1
    BY <2>1, <1>6, Zenon
  <2>2. CASE i # 1
    <3>1. i \in 2 .. Len(digits)
      BY <2>2, <1>6
    <3> QED
      BY <3>1, <2>2, <1>4, Zenon
  <2> QED
    BY <2>1, <2>2, Zenon
<1> QED
  BY <1>5, <1>7, Zenon

\* An eviction in the middle of a call, of GetColumn or of alloc.
LEMMA EvictSound ==
    ASSUME CacheInv, Evictable # {}, Drop({Victim}), UNCHANGED <<queryVars, call, registerVars, others, tableVars>>
    PROVE  CacheInv'
<1> USE DEF queryVars, registerVars, tableVars
<1>0. Victim \in DOMAIN cacheMap /\ ~IsLocked(Victim)
  BY VictimFacts, Zenon DEF CacheInv
<1>1. {Victim} \in SUBSET (DOMAIN cacheMap)
  BY <1>0, Zenon
<1>2. CacheShape' /\ usedSize' <= usedSize /\ usedSize' \in Nat /\ usedSize \in Nat
  <2>1. CacheShape
    BY Zenon DEF CacheInv
  <2>2. CacheShape' /\ usedSize' <= usedSize
    BY <1>1, <2>1, DropShape, Zenon
  <2> QED
    BY <2>1, <2>2, Zenon DEF CacheShape
<1>3. MemoryOwned'
  BY <1>1, DropMemory, Zenon DEF CacheInv
<1>4. DOMAIN cacheMap' = DOMAIN cacheMap \ {Victim} /\ \A key \in DOMAIN cacheMap \ {Victim} : cacheMap'[key] = cacheMap[key]
  BY Zenon DEF Drop, Without
<1>5. CallSound'
  <2>1. CallSound
    BY Zenon DEF CacheInv
  <2>2. call.place = "allocate" => usedSize' + Size(call.arg) <= MaxSize
    <3> SUFFICES ASSUME call.place = "allocate" PROVE usedSize' + Size(call.arg) <= MaxSize
      BY Zenon
    <3>1. usedSize + Size(call.arg) <= MaxSize /\ call.arg \in Key
      BY <2>1, Zenon DEF CallSound
    <3>2. Size(call.arg) \in Nat
      BY <3>1, Zenon DEF Size, Key
    <3> QED
      BY <3>1, <3>2, <1>2, CacheAssumption
  <2> QED
    BY <2>1, <2>2, <1>4, Zenon DEF CallSound, Size
<1>6. RegistersSound'
  <2>1. RegistersSound
    BY Zenon DEF CacheInv
  <2>2. ASSUME NEW reg \in cached, DigitsApart(reg[1])
        PROVE  reg[1] \in DOMAIN cacheMap' /\ cacheMap'[reg[1]].ptr = reg[2]
    <3>1. IsLocked(reg[1])
      BY <2>1, <2>2, RegisterIsLocked, Zenon DEF RegistersSound, CacheInv, TableSound
    <3> QED
      BY <2>1, <2>2, <3>1, <1>0, <1>4, Zenon DEF RegistersSound, LockedColumnsStay
  <2> QED
    BY <2>1, <2>2, Zenon DEF RegistersSound, LockedColumnsStay, DigitsApart
<1>7. TableSound'
  BY Zenon DEF CacheInv, TableSound
<1>8. CopiesCurrent'
  BY <1>4, Zenon DEF CacheInv, CopiesCurrent
<1> QED
  BY <1>2, <1>3, <1>5, <1>6, <1>7, <1>8, Zenon DEF CacheInv
=============================================================================
