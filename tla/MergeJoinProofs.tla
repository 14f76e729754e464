--------------------------- MODULE MergeJoinProofs ---------------------------
(* The kernels of the merge join find the whole merge path of two sorted      *)
(* blocks, for blocks of any size and any number of threads in a block.       *)
EXTENDS MergeJoin, WellFoundedInduction, TLAPS

-----------------------------------------------------------------------------
(* Arithmetic of the thread indices *)

\* A thread index and its parts, blockIdx.x and threadIdx.x.
LEMMA DivMod ==
    ASSUME NEW n \in Nat
    PROVE  /\ n \div W \in Nat
           /\ n % W \in 0 .. W - 1
           /\ n = (n \div W) * W + (n % W)
BY BlockDimAssumption

\* Multiples of the block size lie a block apart.
LEMMA MultiplesApart ==
    ASSUME NEW x \in Int, NEW y \in Int, x < y
    PROVE  x * W \in Int /\ y * W \in Int /\ x * W + W <= y * W
<1>1. W \in Nat
  BY BlockDimAssumption, Zenon
<1>2. x + 1 <= y
  OBVIOUS
<1>3. (x + 1) * W <= y * W
  BY <1>1, <1>2
<1> QED  BY <1>1, <1>3

\* Multiples of the block size are ordered as their factors.
LEMMA MultiplesOrdered ==
    ASSUME NEW x \in Int, NEW y \in Int, x <= y
    PROVE  x * W \in Int /\ y * W \in Int /\ x * W <= y * W
<1>1. W \in Nat
  BY BlockDimAssumption, Zenon
<1> QED  BY <1>1

\* The blockIdx.x of a thread is determined by where it lies.
LEMMA DivIs ==
    ASSUME NEW n \in Nat, NEW q \in Int, NEW r \in 0 .. W - 1, n = q * W + r
    PROVE  n \div W = q /\ n % W = r
<1>1. /\ n \div W \in Nat /\ n % W \in 0 .. W - 1
      /\ n = (n \div W) * W + (n % W)
  BY DivMod, Zenon
<1>2. W \in Nat
  BY BlockDimAssumption, Zenon
<1>3. ~ (n \div W < q)
  BY <1>1, <1>2, MultiplesApart
<1>4. ~ (q < n \div W)
  BY <1>1, <1>2, MultiplesApart
<1>5. n \div W = q
  BY <1>1, <1>3, <1>4
<1> QED  BY <1>1, <1>2, <1>5

\* Sizes are rounded up to the next multiple of the block size.
LEMMA RoundedIs ==
    ASSUME NEW size \in Nat
    PROVE  \E q \in Nat : Rounded(size) = q * W /\ size <= q * W /\ q * W < size + W
<1> DEFINE n == size + W - 1
<1>1. n \in Nat /\ W \in Nat
  BY BlockDimAssumption
<1>2. /\ n \div W \in Nat /\ n % W \in 0 .. W - 1
      /\ n = (n \div W) * W + (n % W)
  BY <1>1, DivMod, Zenon
<1>3. (n \div W) * W \in Int
  BY <1>1, <1>2
<1>4. size <= (n \div W) * W /\ (n \div W) * W < size + W
  BY <1>1, <1>2, <1>3
<1> QED  BY <1>2, <1>4, Zenon DEF Rounded

\* A nonempty set of indices has a least one.
LEMMA LeastIndex ==
    ASSUME NEW T, T \subseteq Nat, T # {}
    PROVE  \E x \in T : \A y \in T : x <= y
<1>1. \A x, y \in Nat : <<y, x>> \in OpToRel(<, Nat) <=> y < x
  BY Zenon DEF OpToRel
<1>2. \E r : IsWellFoundedOn(r, Nat) /\ \A x, y \in Nat : <<y, x>> \in r <=> y < x
  BY <1>1, NatLessThanWellFounded, Zenon
<1>3. PICK r : IsWellFoundedOn(r, Nat) /\ \A x, y \in Nat : <<y, x>> \in r <=> y < x
  BY <1>2, Zenon
<1>4. PICK x \in T : \A y \in T : ~ (<<y, x>> \in r)
  BY <1>3, WFMin, Zenon
<1>5. \A y \in T : ~ (y < x)
  BY <1>3, <1>4, Zenon
<1> QED  BY <1>5, x \in Nat, \A y \in T : y \in Nat

-----------------------------------------------------------------------------
(* The merge path *)

\* What the blocks are while a kernel runs.
BlocksOK ==
    /\ colABlock \in Seq(Int) /\ SortedKeys(colABlock)
    /\ colBBlock \in Seq(Int) /\ SortedKeys(colBBlock) /\ UniqueKeys(colBBlock)

\* The keys of the blocks do not decrease.
LEMMA KeysSorted ==
    ASSUME BlocksOK
    PROVE  /\ colABlockSize \in Nat /\ colBBlockSize \in Nat
           /\ \A a \in 0 .. colABlockSize - 1 : KeyA(a) \in Int
           /\ \A b \in 0 .. colBBlockSize - 1 : KeyB(b) \in Int
           /\ \A a, c \in 0 .. colABlockSize - 1 : a <= c => KeyA(a) <= KeyA(c)
           /\ \A b, c \in 0 .. colBBlockSize - 1 : b <= c => KeyB(b) <= KeyB(c)
           /\ \A b, c \in 0 .. colBBlockSize - 1 : b < c => KeyB(b) < KeyB(c)
<1>1. colABlock \in Seq(Int) /\ colBBlock \in Seq(Int)
  BY Zenon DEF BlocksOK
<1>2. /\ \A a \in 0 .. colABlockSize - 1 : a + 1 \in DOMAIN colABlock /\ KeyA(a) \in Int
      /\ \A b \in 0 .. colBBlockSize - 1 : b + 1 \in DOMAIN colBBlock /\ KeyB(b) \in Int
      /\ colABlockSize \in Nat /\ colBBlockSize \in Nat
  BY <1>1 DEF KeyA, KeyB, colABlockSize, colBBlockSize
<1>3. \A a, c \in 0 .. colABlockSize - 1 : a < c => KeyA(a) <= KeyA(c)
  BY <1>2 DEF BlocksOK, SortedKeys, KeyA
<1>4. \A b, c \in 0 .. colBBlockSize - 1 : b < c => KeyB(b) <= KeyB(c)
  BY <1>2 DEF BlocksOK, SortedKeys, KeyB
<1>5. \A b, c \in 0 .. colBBlockSize - 1 : b < c => KeyB(b) # KeyB(c)
  BY <1>2 DEF BlocksOK, UniqueKeys, KeyB
<1>6. \A a, c \in 0 .. colABlockSize - 1 : a <= c => KeyA(a) <= KeyA(c)
  BY <1>2, <1>3
<1>7. \A b, c \in 0 .. colBBlockSize - 1 : b <= c => KeyB(b) <= KeyB(c)
  BY <1>2, <1>4
<1>8. \A b, c \in 0 .. colBBlockSize - 1 : b < c => KeyB(b) < KeyB(c)
  BY <1>2, <1>4, <1>5
<1> QED  BY <1>2, <1>6, <1>7, <1>8, Zenon

\* The path only goes down and to the right.
LEMMA PathMonotone ==
    ASSUME BlocksOK, NEW a, NEW b, NEW c, NEW d, OnPath(a, b), OnPath(c, d), a + b <= c + d
    PROVE  a <= c /\ b <= d
<1>1. /\ colABlockSize \in Nat /\ colBBlockSize \in Nat
      /\ a \in 0 .. colABlockSize - 1 /\ b \in 0 .. colBBlockSize - 1
      /\ c \in 0 .. colABlockSize - 1 /\ d \in 0 .. colBBlockSize - 1
  BY KeysSorted, Zenon DEF OnPath
<1>2. ASSUME c < a PROVE FALSE
  <2>1. b < d /\ a # 0 /\ b # colBBlockSize - 1 /\ c # colABlockSize - 1 /\ d # 0
    BY <1>1, <1>2
  <2>2. KeyA(a - 1) <= KeyB(b) /\ KeyA(c) > KeyB(d - 1)
    BY <2>1, Zenon DEF OnPath
  <2>3. /\ a - 1 \in 0 .. colABlockSize - 1 /\ c <= a - 1
        /\ d - 1 \in 0 .. colBBlockSize - 1 /\ b <= d - 1
    BY <1>1, <1>2, <2>1
  <2>4. KeyA(c) <= KeyA(a - 1) /\ KeyB(b) <= KeyB(d - 1)
    BY <1>1, <2>3, KeysSorted, Zenon
  <2>5. KeyA(c) \in Int /\ KeyA(a - 1) \in Int /\ KeyB(b) \in Int /\ KeyB(d - 1) \in Int
    BY <1>1, <2>3, KeysSorted, Zenon
  <2> QED  BY <2>2, <2>4, <2>5
<1>3. ASSUME d < b PROVE FALSE
  <2>1. a < c /\ c # 0 /\ d # colBBlockSize - 1 /\ a # colABlockSize - 1 /\ b # 0
    BY <1>1, <1>3
  <2>2. KeyA(c - 1) <= KeyB(d) /\ KeyA(a) > KeyB(b - 1)
    BY <2>1, Zenon DEF OnPath
  <2>3. /\ c - 1 \in 0 .. colABlockSize - 1 /\ a <= c - 1
        /\ b - 1 \in 0 .. colBBlockSize - 1 /\ d <= b - 1
    BY <1>1, <1>3, <2>1
  <2>4. KeyA(a) <= KeyA(c - 1) /\ KeyB(d) <= KeyB(b - 1)
    BY <1>1, <2>3, KeysSorted, Zenon
  <2>5. KeyA(a) \in Int /\ KeyA(c - 1) \in Int /\ KeyB(d) \in Int /\ KeyB(b - 1) \in Int
    BY <1>1, <2>3, KeysSorted, Zenon
  <2> QED  BY <2>2, <2>4, <2>5
<1> QED  BY <1>1, <1>2, <1>3

\* It crosses a diagonal once.
LEMMA PathPointUnique ==
    ASSUME BlocksOK, NEW a, NEW b, NEW c, NEW d, OnPath(a, b), OnPath(c, d), a + b = c + d
    PROVE  a = c /\ b = d
<1>1. a \in Int /\ b \in Int /\ c \in Int /\ d \in Int
  BY DEF OnPath
<1>2. a + b <= c + d /\ c + d <= a + b
  BY <1>1
<1>3. a <= c /\ b <= d
  BY <1>2, PathMonotone, Zenon
<1>4. c <= a /\ d <= b
  BY <1>2, PathMonotone, Zenon
<1> QED  BY <1>1, <1>3, <1>4

\* Equal keys meet on the path, since the keys of B are all different.
LEMMA EqualKeysOnPath ==
    ASSUME BlocksOK, NEW a \in 0 .. colABlockSize - 1, NEW b \in 0 .. colBBlockSize - 1,
           KeyA(a) = KeyB(b)
    PROVE  OnPath(a, b)
<1>1. colABlockSize \in Nat /\ colBBlockSize \in Nat /\ KeyA(a) \in Int /\ KeyB(b) \in Int
  BY KeysSorted, Zenon
<1>2. b # 0 => KeyA(a) > KeyB(b - 1)
  <2> SUFFICES ASSUME b # 0 PROVE KeyA(a) > KeyB(b - 1)
    BY Zenon
  <2>1. b - 1 \in 0 .. colBBlockSize - 1 /\ b - 1 < b
    BY <1>1
  <2>2. KeyB(b - 1) < KeyB(b) /\ KeyB(b - 1) \in Int
    BY <2>1, KeysSorted, Zenon
  <2> QED  BY <1>1, <2>2, Zenon
<1>3. a # 0 => KeyA(a - 1) <= KeyB(b)
  <2> SUFFICES ASSUME a # 0 PROVE KeyA(a - 1) <= KeyB(b)
    BY Zenon
  <2>1. a - 1 \in 0 .. colABlockSize - 1 /\ a - 1 <= a
    BY <1>1
  <2>2. KeyA(a - 1) <= KeyA(a) /\ KeyA(a - 1) \in Int
    BY <2>1, KeysSorted, Zenon
  <2> QED  BY <1>1, <2>2, Zenon
<1> QED  BY <1>2, <1>3, Zenon DEF OnPath

\* The path crosses every diagonal of the merge matrix.
LEMMA PathPointExists ==
    ASSUME BlocksOK, colABlock # <<>>, colBBlock # <<>>,
           NEW d \in 0 .. diagonalCount(colABlockSize, colBBlockSize) - 1
    PROVE  \E a \in Nat : OnPath(a, d - a)
<1> DEFINE nA == colABlockSize
           nB == colBBlockSize
           T == {a \in 0 .. nA - 1 : /\ d - a \in 0 .. nB - 1
                                     /\ a = nA - 1 \/ d - a = 0 \/ KeyA(a) > KeyB(d - a - 1)}
<1>1. nA \in Nat /\ nB \in Nat /\ nA # 0 /\ nB # 0 /\ d \in 0 .. nA + nB - 2
  BY DEF BlocksOK, diagonalCount, colABlockSize, colBBlockSize
<1>2. T # {}
  <2>1. CASE d <= nA - 1
    <3>1. d \in T
      BY <1>1, <2>1
    <3> QED  BY <3>1, Zenon
  <2>2. CASE d > nA - 1
    <3>1. nA - 1 \in T
      BY <1>1, <2>2
    <3> QED  BY <3>1, Zenon
  <2> QED  BY <1>1, <2>1, <2>2
<1>3. T \subseteq Nat
  BY <1>1
<1>4. PICK a \in T : \A c \in T : a <= c
  <2> HIDE DEF T
  <2> QED  BY <1>2, <1>3, LeastIndex, Zenon
<1>5. a # 0 /\ d - a # nB - 1 => KeyA(a - 1) <= KeyB(d - a)
  <2> SUFFICES ASSUME a # 0, d - a # nB - 1 PROVE KeyA(a - 1) <= KeyB(d - a)
    BY Zenon
  <2>1. a - 1 \in 0 .. nA - 1 /\ d - (a - 1) \in 0 .. nB - 1 /\ d - a \in 0 .. nB - 1
    BY <1>1, <1>4
  <2>2. a - 1 \notin T
    BY <1>3, <1>4
  <2>3. ~ (KeyA(a - 1) > KeyB(d - (a - 1) - 1))
    BY <2>1, <2>2, Zenon
  <2>4. d - (a - 1) - 1 = d - a
    BY <1>1, <1>3
  <2>5. KeyA(a - 1) \in Int /\ KeyB(d - a) \in Int
    BY <2>1, KeysSorted, Zenon
  <2> QED  BY <2>3, <2>4, <2>5
<1> QED  BY <1>3, <1>4, <1>5, Zenon DEF OnPath

-----------------------------------------------------------------------------
(* The body of the loop *)

\* The cases of the verdict on a point, one by one.
LEMMA VerdictCases ==
    ASSUME BlocksOK, NEW a \in Nat, NEW b \in Nat, NEW before \in Int
    PROVE  LET v == Verdict(a, b, before)
           IN  \/ a >= colABlockSize /\ b >= colBBlockSize /\ v = "stop"
               \/ a >= colABlockSize /\ b < colBBlockSize /\ v = "up"
               \/ a < colABlockSize /\ b >= colBBlockSize /\ v = "down"
               \/ /\ Inside(a, b) /\ v = "here"
                  /\ KeyA(a) > KeyB(b) /\ (a = 0 \/ b = colBBlockSize - 1)
               \/ /\ Inside(a, b) /\ v = "here"
                  /\ KeyA(a) <= KeyB(b) /\ (a = colABlockSize - 1 \/ b = 0)
               \/ /\ Inside(a, b) /\ v = "here"
                  /\ b # 0 => KeyA(a) > KeyB(b - 1)
                  /\ a # 0 => KeyA(a - 1) <= KeyB(b)
               \/ /\ Inside(a, b) /\ v = "up"
                  /\ a # 0 => ~ (KeyA(a - 1) <= KeyB(b))
                  /\ ~ (KeyA(a) > KeyB(b) /\ (a = 0 \/ b = colBBlockSize - 1))
               \/ /\ Inside(a, b) /\ v = "down"
                  /\ b # 0 => ~ (KeyA(a) > KeyB(b - 1))
                  /\ ~ (KeyA(a) <= KeyB(b) /\ (a = colABlockSize - 1 \/ b = 0))
<1>1. colABlockSize \in Nat /\ colBBlockSize \in Nat
  BY KeysSorted, Zenon
<1>2. CASE a >= colABlockSize /\ b >= colBBlockSize
  BY <1>1, <1>2 DEF Verdict, Inside
<1>3. CASE a >= colABlockSize /\ b < colBBlockSize
  BY <1>1, <1>3 DEF Verdict, Inside
<1>4. CASE a < colABlockSize /\ b >= colBBlockSize
  BY <1>1, <1>4 DEF Verdict, Inside
<1>5. CASE a < colABlockSize /\ b < colBBlockSize
  <2>1. Inside(a, b) /\ ~ (a >= colABlockSize) /\ ~ (b >= colBBlockSize)
    BY <1>1, <1>5 DEF Inside
  <2>2. KeyA(a) \in Int /\ KeyB(b) \in Int
    BY <1>1, <1>5, KeysSorted
  <2>3. CASE KeyA(a) > KeyB(b) /\ (a = 0 \/ b = colBBlockSize - 1)
    <3>1. ~ (KeyA(a) <= KeyB(b))
      BY <2>2, <2>3
    <3>2. Verdict(a, b, before) = "here"
      BY <2>1, <2>3, <3>1, Zenon DEF Verdict
    <3> QED  BY <2>1, <2>3, <3>2, Zenon
  <2>4. CASE KeyA(a) <= KeyB(b) /\ (a = colABlockSize - 1 \/ b = 0)
    <3>1. ~ (KeyA(a) > KeyB(b))
      BY <2>2, <2>4
    <3>2. Verdict(a, b, before) = "here"
      BY <2>1, <2>4, <3>1, Zenon DEF Verdict
    <3> QED  BY <2>1, <2>4, <3>2, Zenon
  <2>5. CASE /\ ~ (KeyA(a) > KeyB(b) /\ (a = 0 \/ b = colBBlockSize - 1))
             /\ ~ (KeyA(a) <= KeyB(b) /\ (a = colABlockSize - 1 \/ b = 0))
    <3> DEFINE left == IF b = 0 THEN before ELSE KeyB(b - 1)
               above == IF a = 0 THEN before ELSE KeyA(a - 1)
    <3>1. Verdict(a, b, before) =
            IF KeyA(a) > left THEN IF above <= KeyB(b) THEN "here" ELSE "up" ELSE "down"
      BY <2>1, <2>5, Zenon DEF Verdict
    <3>2. CASE KeyA(a) > left /\ above <= KeyB(b)
      BY <2>1, <3>1, <3>2, Zenon
    <3>3. CASE KeyA(a) > left /\ ~ (above <= KeyB(b))
      BY <2>1, <2>5, <3>1, <3>3, Zenon
    <3>4. CASE ~ (KeyA(a) > left)
      BY <2>1, <2>5, <3>1, <3>4, Zenon
    <3> QED  BY <3>2, <3>3, <3>4, Zenon
  <2> QED  BY <2>3, <2>4, <2>5, Zenon
<1> QED  BY <1>1, <1>2, <1>3, <1>4, <1>5

\* A point that is found is on the path, whatever a read before a block gives.
LEMMA HereIsOnPath ==
    ASSUME BlocksOK, NEW a \in Nat, NEW b \in Nat, NEW before \in Int,
           Verdict(a, b, before) = "here"
    PROVE  OnPath(a, b)
<1>1. colABlockSize \in Nat /\ colBBlockSize \in Nat
  BY KeysSorted, Zenon
<1>2. /\ Inside(a, b)
      /\ \/ KeyA(a) > KeyB(b) /\ (a = 0 \/ b = colBBlockSize - 1)
         \/ KeyA(a) <= KeyB(b) /\ (a = colABlockSize - 1 \/ b = 0)
         \/ /\ b # 0 => KeyA(a) > KeyB(b - 1)
            /\ a # 0 => KeyA(a - 1) <= KeyB(b)
  BY VerdictCases, Zenon
<1>3. /\ a \in 0 .. colABlockSize - 1 /\ b \in 0 .. colBBlockSize - 1
      /\ KeyA(a) \in Int /\ KeyB(b) \in Int
  BY <1>1, <1>2, KeysSorted DEF Inside
<1>4. b # 0 => KeyB(b - 1) <= KeyB(b) /\ KeyB(b - 1) \in Int
  <2>1. b # 0 => b - 1 \in 0 .. colBBlockSize - 1 /\ b - 1 <= b
    BY <1>1, <1>3
  <2> QED  BY <1>3, <2>1, KeysSorted, Zenon
<1>5. a # 0 => KeyA(a - 1) <= KeyA(a) /\ KeyA(a - 1) \in Int
  <2>1. a # 0 => a - 1 \in 0 .. colABlockSize - 1 /\ a - 1 <= a
    BY <1>1, <1>3
  <2> QED  BY <1>3, <2>1, KeysSorted, Zenon
<1>6. a = colABlockSize - 1 \/ b = 0 \/ KeyA(a) > KeyB(b - 1)
  BY <1>2, <1>3, <1>4
<1>7. a = 0 \/ b = colBBlockSize - 1 \/ KeyA(a - 1) <= KeyB(b)
  BY <1>2, <1>3, <1>5
<1> QED  BY <1>3, <1>6, <1>7, Zenon DEF OnPath

\* A search that is not misled turns towards the point it looks for.
LEMMA VerdictTurnsRight ==
    ASSUME BlocksOK, NEW a \in Nat, NEW b \in Nat, NEW before \in Int,
           NEW c, NEW d, OnPath(c, d), c + d = a + b,
           ~ Misleading(a, b, Verdict(a, b, before)), Verdict(a, b, before) # "here"
    PROVE  \/ Verdict(a, b, before) = "up" /\ c <= a - 1
           \/ Verdict(a, b, before) = "down" /\ c >= a + 1
<1>1. colABlockSize \in Nat /\ colBBlockSize \in Nat
  BY KeysSorted, Zenon
<1>2. /\ c \in 0 .. colABlockSize - 1 /\ d \in 0 .. colBBlockSize - 1
      /\ KeyA(c) \in Int /\ KeyB(d) \in Int
  BY KeysSorted, Zenon DEF OnPath
<1>3. CASE a >= colABlockSize \/ b >= colBBlockSize
  <2>1. \/ a >= colABlockSize /\ b >= colBBlockSize
        \/ a >= colABlockSize /\ b < colBBlockSize /\ Verdict(a, b, before) = "up"
        \/ a < colABlockSize /\ b >= colBBlockSize /\ Verdict(a, b, before) = "down"
    BY <1>1, <1>3, VerdictCases DEF Inside
  <2> QED  BY <1>1, <1>2, <2>1
<1>4. CASE /\ Inside(a, b) /\ Verdict(a, b, before) = "up" /\ a # 0
           /\ ~ (KeyA(a - 1) <= KeyB(b))
           /\ ~ (KeyA(a) > KeyB(b) /\ (a = 0 \/ b = colBBlockSize - 1))
  <2>1. a \in 0 .. colABlockSize - 1 /\ a - 1 \in 0 .. colABlockSize - 1
        /\ b \in 0 .. colBBlockSize - 1
    BY <1>1, <1>4 DEF Inside
  <2>2. /\ KeyA(a) \in Int /\ KeyA(a - 1) \in Int /\ KeyB(b) \in Int
        /\ KeyA(a - 1) <= KeyA(a)
    BY <1>1, <2>1, KeysSorted
  <2>3. c # a
    <3> SUFFICES ASSUME c = a PROVE FALSE
      BY Zenon
    <3>1. d = b
      BY <1>2
    <3>2. b = colBBlockSize - 1
      BY <1>4, <3>1, Zenon DEF OnPath
    <3> QED  BY <1>4, <2>2, <3>2
  <2>4. ~ (c > a)
    <3> SUFFICES ASSUME c > a PROVE FALSE
      BY Zenon
    <3>1. d < b /\ c # 0 /\ d # colBBlockSize - 1 /\ a <= c - 1 /\ c - 1 \in 0 .. colABlockSize - 1
      BY <1>1, <1>2, <2>1
    <3>2. KeyA(c - 1) <= KeyB(d)
      BY <3>1, Zenon DEF OnPath
    <3>3. KeyA(a) <= KeyA(c - 1) /\ KeyB(d) <= KeyB(b) /\ KeyA(c - 1) \in Int
      BY <1>2, <2>1, <3>1, KeysSorted
    <3> QED  BY <1>2, <1>4, <2>2, <3>2, <3>3
  <2> QED  BY <1>2, <1>4, <2>3, <2>4
<1>5. CASE /\ Inside(a, b) /\ Verdict(a, b, before) = "down" /\ b # 0
           /\ ~ (KeyA(a) > KeyB(b - 1))
           /\ ~ (KeyA(a) <= KeyB(b) /\ (a = colABlockSize - 1 \/ b = 0))
  <2>1. a \in 0 .. colABlockSize - 1 /\ b - 1 \in 0 .. colBBlockSize - 1
        /\ b \in 0 .. colBBlockSize - 1
    BY <1>1, <1>5 DEF Inside
  <2>2. /\ KeyA(a) \in Int /\ KeyB(b - 1) \in Int /\ KeyB(b) \in Int
        /\ KeyB(b - 1) <= KeyB(b)
    BY <1>1, <2>1, KeysSorted
  <2>3. c # a
    <3> SUFFICES ASSUME c = a PROVE FALSE
      BY Zenon
    <3>1. d = b
      BY <1>2
    <3>2. a = colABlockSize - 1
      BY <1>5, <3>1, Zenon DEF OnPath
    <3> QED  BY <1>5, <2>2, <3>2
  <2>4. ~ (c < a)
    <3> SUFFICES ASSUME c < a PROVE FALSE
      BY Zenon
    <3>1. b < d /\ d # 0 /\ c # colABlockSize - 1 /\ b - 1 <= d - 1 /\ d - 1 \in 0 .. colBBlockSize - 1
      BY <1>1, <1>2, <2>1
    <3>2. KeyA(c) > KeyB(d - 1)
      BY <3>1, Zenon DEF OnPath
    <3>3. KeyA(c) <= KeyA(a) /\ KeyB(b - 1) <= KeyB(d - 1) /\ KeyB(d - 1) \in Int
      BY <1>2, <2>1, <3>1, KeysSorted
    <3> QED  BY <1>2, <1>5, <2>2, <3>2, <3>3
  <2> QED  BY <1>2, <1>5, <2>3, <2>4
<1>6. CASE ~ (a >= colABlockSize \/ b >= colBBlockSize)
  <2>1. \/ /\ Inside(a, b) /\ Verdict(a, b, before) = "up"
           /\ a # 0 => ~ (KeyA(a - 1) <= KeyB(b))
           /\ ~ (KeyA(a) > KeyB(b) /\ (a = 0 \/ b = colBBlockSize - 1))
        \/ /\ Inside(a, b) /\ Verdict(a, b, before) = "down"
           /\ b # 0 => ~ (KeyA(a) > KeyB(b - 1))
           /\ ~ (KeyA(a) <= KeyB(b) /\ (a = colABlockSize - 1 \/ b = 0))
    BY <1>6, VerdictCases, Zenon
  <2> QED  BY <1>4, <1>5, <2>1, Zenon DEF Misleading
<1> QED  BY <1>3, <1>6, Zenon

-----------------------------------------------------------------------------
(* Where the threads search *)

\* The diagonal of the threads of block k of kernel_partition_input.
Diag(k) == (k + 1) * W - 1

\* A window on a diagonal, from its upper right to its lower left end.
IsWindow(s, i, diagonal) ==
    /\ s \in [i : Nat, aBeg : Int, aEnd : Int, bBeg : Int, bEnd : Int]
    /\ s.i = i /\ s.aBeg >= 0 /\ s.bBeg >= 0
    /\ s.aBeg + s.bEnd = diagonal
    /\ s.aEnd + s.bBeg = diagonal

\* The bounds of kernel_partition_input are a window on the diagonal of the
\* block of threads.
LEMMA PartitionWindow ==
    ASSUME NEW i \in Nat, NEW sizeA \in Nat, NEW sizeB \in Nat
    PROVE  IsWindow(PartitionBounds(i, sizeA, sizeB), i, Diag(i \div W))
<1> DEFINE t == i % W
           k == i \div W
           pb == PartitionBounds(i, sizeA, sizeB)
<1>1. W \in Nat /\ t \in 0 .. W - 1 /\ k \in Nat /\ k * W \in Nat /\ i = k * W + t
  BY BlockDimAssumption, DivMod
<1>2. PICK qA \in Nat : Rounded(sizeA) = qA * W
  BY RoundedIs, Zenon
<1>3. PICK qB \in Nat : Rounded(sizeB) = qB * W
  BY RoundedIs, Zenon
<1>4. qA * W \in Nat /\ qB * W \in Nat
  BY <1>1
<1>5. Diag(k) = k * W + W - 1
  BY <1>1 DEF Diag
<1>6. pb = [i |-> i,
            aBeg |-> IF i < qB * W THEN t ELSE W + i - qB * W,
            aEnd |-> IF i < qA * W THEN i ELSE qA * W - W + t,
            bBeg |-> IF i < qA * W THEN W - t - 1
                     ELSE ((W + i - qA * W) \div W) * W + (W - t - 1),
            bEnd |-> IF i < qB * W THEN k * W + (W - t - 1)
                     ELSE qB * W - W + (W - t - 1)]
  BY <1>2, <1>3, Zenon DEF PartitionBounds
<1>7. pb.aBeg \in Nat /\ pb.bEnd \in Int /\ pb.aBeg + pb.bEnd = Diag(k)
  <2>1. CASE i < qB * W
    BY <1>1, <1>4, <1>5, <1>6, <2>1
  <2>2. CASE ~ (i < qB * W)
    BY <1>1, <1>4, <1>5, <1>6, <2>2
  <2> QED  BY <2>1, <2>2, Zenon
<1>8. pb.aEnd \in Int /\ pb.bBeg \in Nat /\ pb.aEnd + pb.bBeg = Diag(k)
  <2>1. CASE i < qA * W
    BY <1>1, <1>4, <1>5, <1>6, <2>1
  <2>2. CASE ~ (i < qA * W)
    <3> DEFINE n == W + i - qA * W
    <3>1. n \in Nat /\ 1 + k - qA \in Int
      BY <1>1, <1>4, <2>2
    <3>2. n = (1 + k - qA) * W + t
      BY <1>1, <1>4
    <3>3. n \div W = 1 + k - qA /\ n \div W \in Nat
      <4> HIDE DEF n, k, t
      <4>1. n \div W = 1 + k - qA
        BY <1>1, <3>1, <3>2, DivIs, Zenon
      <4>2. n \div W \in Nat
        BY <3>1, DivMod, Zenon
      <4> QED  BY <4>1, <4>2, Zenon
    <3>4. (n \div W) * W = W + k * W - qA * W /\ (n \div W) * W \in Nat
      BY <1>1, <3>3
    <3>5. pb.bBeg = (n \div W) * W + (W - t - 1) /\ pb.aEnd = qA * W - W + t
      BY <1>6, <2>2
    <3> QED  BY <1>1, <1>4, <1>5, <3>4, <3>5
  <2> QED  BY <2>1, <2>2, Zenon
<1>9. pb \in [i : Nat, aBeg : Int, aEnd : Int, bBeg : Int, bEnd : Int] /\ pb.i = i
  <2>1. pb = [i |-> i, aBeg |-> pb.aBeg, aEnd |-> pb.aEnd, bBeg |-> pb.bBeg, bEnd |-> pb.bEnd]
    BY <1>6
  <2> HIDE DEF pb
  <2> QED  BY <1>7, <1>8, <2>1
<1> HIDE DEF pb, k
<1>10. IsWindow(pb, i, Diag(k))
  BY <1>7, <1>8, <1>9 DEF IsWindow
<1> QED  BY <1>10, Zenon DEF pb, k

\* One of the threads of a block searches where the path crosses its diagonal.
LEMMA PartitionCovers ==
    ASSUME BlocksOK, NEW k \in Nat, NEW a, OnPath(a, Diag(k) - a)
    PROVE  \E i \in 0 .. diagonalCountRounded(colABlockSize, colBBlockSize) - 1 :
              /\ i \div W = k
              /\ a \in PartitionBounds(i, colABlockSize, colBBlockSize).aBeg
                       .. PartitionBounds(i, colABlockSize, colBBlockSize).aEnd
<1> DEFINE nA == colABlockSize
           nB == colBBlockSize
           t == a % W
           m == a \div W
           i == k * W + t
           pb == PartitionBounds(i, nA, nB)
<1>1. nA \in Nat /\ nB \in Nat /\ W \in Nat /\ k * W \in Nat
  BY KeysSorted, BlockDimAssumption
<1>2. a \in 0 .. nA - 1 /\ Diag(k) - a \in 0 .. nB - 1
  BY Zenon DEF OnPath
<1>3. m \in Nat /\ t \in 0 .. W - 1 /\ a = m * W + t /\ m * W \in Nat
  BY <1>1, <1>2, DivMod
<1> HIDE DEF t, m
<1>4. PICK qA \in Nat : Rounded(nA) = qA * W /\ nA <= qA * W
  BY <1>1, RoundedIs, Zenon
<1>5. PICK qB \in Nat : Rounded(nB) = qB * W /\ nB <= qB * W
  BY <1>1, RoundedIs, Zenon
<1>6. qA * W \in Nat /\ qB * W \in Nat
  BY <1>1
<1>7. Diag(k) = k * W + W - 1
  BY <1>1 DEF Diag
<1>8. i \in Nat /\ i \div W = k /\ i % W = t
  <2>1. i \in Nat
    BY <1>1, <1>3
  <2> QED  BY <1>3, <2>1, DivIs
<1>9. i \in 0 .. diagonalCountRounded(nA, nB) - 1
  <2>1. k * W + W - 1 <= nA + nB - 2
    BY <1>1, <1>2, <1>7
  <2> QED  BY <1>1, <1>3, <1>4, <1>5, <1>6, <2>1 DEF diagonalCountRounded
<1>10. m <= k
  <2> SUFFICES ASSUME k < m PROVE FALSE
    BY <1>3
  <2>1. k * W + W <= m * W
    BY <1>3, MultiplesApart
  <2> QED  BY <1>1, <1>2, <1>3, <1>7, <2>1
<1>11. m * W <= k * W
  BY <1>3, <1>10, MultiplesOrdered
<1>12. m * W + W <= qA * W
  <2> SUFFICES m < qA
    BY <1>3, MultiplesApart
  <2> SUFFICES ASSUME qA <= m PROVE FALSE
    BY <1>3
  <2>1. qA * W <= m * W
    BY <1>3, MultiplesOrdered
  <2> QED  BY <1>1, <1>2, <1>3, <1>4, <1>6, <2>1
<1>13. k * W + W - qB * W <= m * W
  <2> DEFINE z == k + 1 - qB
  <2>1. z \in Int /\ z * W = k * W + W - qB * W
    BY <1>1
  <2>2. z * W <= a
    BY <1>1, <1>2, <1>5, <1>6, <1>7, <2>1
  <2> HIDE DEF z
  <2>3. ~ (m < z)
    <3> SUFFICES ASSUME m < z PROVE FALSE
      BY Zenon
    <3>1. m * W + W <= z * W /\ z * W \in Int
      BY <1>3, <2>1, MultiplesApart
    <3> QED  BY <1>1, <1>3, <2>2, <3>1
  <2>4. z * W <= m * W
    BY <1>3, <2>1, <2>3, MultiplesOrdered
  <2> QED  BY <2>1, <2>4, Zenon
<1>14. /\ pb.aBeg = IF i < qB * W THEN t ELSE W + i - qB * W
       /\ pb.aEnd = IF i < qA * W THEN i ELSE qA * W - W + t
  BY <1>4, <1>5, <1>8, Zenon DEF PartitionBounds
<1>15. a \in Nat /\ i = k * W + t
  BY <1>2
<1>16. a \in pb.aBeg .. pb.aEnd
  <2> HIDE DEF t, m, i, pb, nA, nB
  <2>1. pb.aBeg \in Int /\ pb.aBeg <= a
    BY <1>1, <1>3, <1>6, <1>13, <1>14, <1>15
  <2>2. pb.aEnd \in Int /\ a <= pb.aEnd
    BY <1>1, <1>3, <1>6, <1>11, <1>12, <1>14, <1>15
  <2> QED  BY <1>15, <2>1, <2>2
<1> QED  BY <1>8, <1>9, <1>16, Zenon

\* The threads of kernel_partition_input have room for what they find, and
\* there is room for every diagonal of theirs.
LEMMA DiagonalsInRange ==
    ASSUME NEW n \in Nat, NEW m \in Nat, m <= n
    PROVE  m \div W \in 0 .. n \div W
<1>1. /\ n \div W \in Nat /\ n % W \in 0 .. W - 1 /\ n = (n \div W) * W + (n % W)
      /\ m \div W \in Nat /\ m % W \in 0 .. W - 1 /\ m = (m \div W) * W + (m % W)
  BY DivMod, Zenon
<1>2. ~ (n \div W < m \div W)
  <2> SUFFICES ASSUME n \div W < m \div W PROVE FALSE
    BY Zenon
  <2>1. /\ (n \div W) * W + W <= (m \div W) * W
        /\ (n \div W) * W \in Int /\ (m \div W) * W \in Int
    BY <1>1, MultiplesApart
  <2> QED  BY <1>1, <2>1, BlockDimAssumption
<1> QED  BY <1>1, <1>2

\* The bounds of kernel_find_merge_path are a window on its diagonal that
\* starts at a point of the path, so the path crosses the diagonal in it.
LEMMA PathWindow ==
    ASSUME NEW i \in Nat, NEW base \in Nat \X Nat,
           IF (i + 1) \div W = 0 THEN base = <<0, 0>>
           ELSE base[1] + base[2] = Diag((i + 1) \div W - 1)
    PROVE  IsWindow(PathBounds(i, base), i, i)
<1> DEFINE n == (i + 1) \div W
           pb == PathBounds(i, base)
           far == IF n = 0 THEN i % W ELSE (i + 1) % W
<1>1. n \in Nat /\ (i + 1) % W \in 0 .. W - 1 /\ i + 1 = n * W + ((i + 1) % W)
  <2>1. i + 1 \in Nat
    OBVIOUS
  <2> QED  BY <2>1, DivMod, Zenon
<1>2. W \in Nat
  BY BlockDimAssumption, Zenon
<1>3. base[1] \in Nat /\ base[2] \in Nat
  BY Zenon
<1>4. far \in Nat /\ base[1] + base[2] + far = i
  <2>1. CASE n = 0
    <3>1. i < W /\ i = 0 * W + i
      BY <1>1, <1>2, <2>1
    <3>2. i % W = i
      BY <1>2, <3>1, DivIs
    <3> QED  BY <2>1, <3>2
  <2>2. CASE n # 0
    <3>1. Diag(n - 1) = n * W - 1
      BY <1>1 DEF Diag
    <3>2. n * W \in Nat
      BY <1>1, <1>2
    <3> QED  BY <1>1, <1>3, <2>2, <3>1, <3>2
  <2> QED  BY <2>1, <2>2, Zenon
<1>5. pb = [i |-> i, aBeg |-> base[1], aEnd |-> base[1] + far,
                     bBeg |-> base[2], bEnd |-> base[2] + far]
  BY Zenon DEF PathBounds
<1> HIDE DEF far
<1> QED  BY <1>3, <1>4, <1>5 DEF IsWindow

-----------------------------------------------------------------------------
(* The invariant *)

Points == (Nat \X Nat) \cup {Unset}

PathTypes ==
    /\ kernel \in {"none", "partition", "path", "eval"}
    /\ kernel = "none" => diagonals = <<>> /\ path = <<>>
    /\ kernel # "none" =>
          /\ BlocksOK /\ colABlock # <<>> /\ colBBlock # <<>>
          /\ diagonals \in
               [0 .. diagonalCountRounded(colABlockSize, colBBlockSize) \div W -> Points]
          /\ path \in [0 .. diagonalCount(colABlockSize, colBBlockSize) - 1 -> Points]

\* The points written are those of the path.
PointsSound ==
    /\ \A k \in DOMAIN diagonals : diagonals[k] # Unset =>
          /\ OnPath(diagonals[k][1], diagonals[k][2])
          /\ diagonals[k][1] + diagonals[k][2] = Diag(k)
    /\ \A d \in DOMAIN path : path[d] # Unset =>
          /\ OnPath(path[d][1], path[d][2])
          /\ path[d][1] + path[d][2] = d

\* The diagonal of the thread that searches.
Diagonal == IF kernel = "partition" THEN Diag(search.i \div W) ELSE search.i

\* Its bounds are those of a window on the diagonal until it breaks the loop.
Searching ==
    kernel \in {"partition", "path"} =>
       /\ search \in [i : Nat, aBeg : Int, aEnd : Int, bBeg : Int, bEnd : Int]
       /\ search.aBeg >= 0 /\ search.bBeg >= 0
       /\ search.aBeg <= search.aEnd => /\ search.aBeg + search.bEnd = Diagonal
                                        /\ search.aEnd + search.bBeg = Diagonal
       /\ kernel = "partition" =>
             search.i < diagonalCountRounded(colABlockSize, colBBlockSize)
       /\ kernel = "path" => search.i < diagonalCount(colABlockSize, colBBlockSize)

\* The path crosses the diagonal of thread j at row a, where the thread looks.
Covers(j, a) ==
    /\ OnPath(a, Diag(j \div W) - a)
    /\ a \in PartitionBounds(j, colABlockSize, colBBlockSize).aBeg
             .. PartitionBounds(j, colABlockSize, colBBlockSize).aEnd

PartitionComplete ==
    /\ \A j \in Nat : j < search.i => \A a \in Nat : Covers(j, a) => diagonals[j \div W] # Unset
    /\ \A a \in Nat : Covers(search.i, a) =>
          diagonals[search.i \div W] # Unset \/ a \in search.aBeg .. search.aEnd

DiagonalsComplete ==
    \A k \in Nat : Diag(k) < diagonalCount(colABlockSize, colBBlockSize) =>
       k \in DOMAIN diagonals /\ diagonals[k] # Unset

PathComplete ==
    /\ \A d \in Nat : d < search.i => path[d] # Unset
    /\ \A a \in Nat : OnPath(a, search.i - a) =>
          path[search.i] # Unset \/ a \in search.aBeg .. search.aEnd

AllFound == \A d \in 0 .. diagonalCount(colABlockSize, colBBlockSize) - 1 : path[d] # Unset

\* What has not been found yet lies in the window, unless a read before a
\* block has misled a search.
Complete ==
    ~ misled => /\ kernel = "partition" => PartitionComplete
                /\ kernel = "path" => DiagonalsComplete /\ PathComplete
                /\ kernel = "eval" => AllFound

PathInv == PathTypes /\ PointsSound /\ Searching /\ Complete

\* The sizes and counts of two blocks that are not empty.
LEMMA Counts ==
    ASSUME BlocksOK, colABlock # <<>>, colBBlock # <<>>
    PROVE  /\ colABlockSize \in Nat \ {0} /\ colBBlockSize \in Nat \ {0}
           /\ diagonalCount(colABlockSize, colBBlockSize) \in Nat \ {0}
           /\ diagonalCountRounded(colABlockSize, colBBlockSize) \in Nat
           /\ diagonalCount(colABlockSize, colBBlockSize)
                <= diagonalCountRounded(colABlockSize, colBBlockSize)
<1>1. colABlockSize \in Nat \ {0} /\ colBBlockSize \in Nat \ {0}
  BY DEF BlocksOK, colABlockSize, colBBlockSize
<1>2. PICK qA \in Nat : Rounded(colABlockSize) = qA * W /\ colABlockSize <= qA * W
  BY <1>1, RoundedIs, Zenon
<1>3. PICK qB \in Nat : Rounded(colBBlockSize) = qB * W /\ colBBlockSize <= qB * W
  BY <1>1, RoundedIs, Zenon
<1>4. qA * W \in Nat /\ qB * W \in Nat
  BY BlockDimAssumption
<1> QED  BY <1>1, <1>2, <1>3, <1>4 DEF diagonalCount, diagonalCountRounded

\* Diagonals of the first kernel that cross the matrix have their place.
LEMMA DiagonalHasPlace ==
    ASSUME BlocksOK, colABlock # <<>>, colBBlock # <<>>, NEW k \in Nat,
           Diag(k) < diagonalCount(colABlockSize, colBBlockSize)
    PROVE  k \in 0 .. diagonalCountRounded(colABlockSize, colBBlockSize) \div W
<1> DEFINE n == diagonalCountRounded(colABlockSize, colBBlockSize)
           m == diagonalCount(colABlockSize, colBBlockSize)
<1>1. n \in Nat /\ m \in Nat /\ m <= n
  BY Counts, Zenon
<1>2. W \in Nat /\ W # 0 /\ k * W \in Nat /\ Diag(k) = k * W + W - 1
  BY BlockDimAssumption DEF Diag
<1> HIDE DEF n, m
<1>3. k * W <= n
  BY <1>1, <1>2 DEF m
<1>4. (k * W) \div W \in 0 .. n \div W
  BY <1>1, <1>2, <1>3, DiagonalsInRange, Zenon
<1>5. k * W = k * W + 0 /\ 0 \in 0 .. W - 1
  BY <1>2
<1>6. (k * W) \div W = k
  BY <1>2, <1>5, DivIs
<1> QED  BY <1>4, <1>6, Zenon DEF n

\* The invariant says what the property says.
LEMMA PathInvRight == PathInv => MergePointsRight
<1> SUFFICES ASSUME PathInv PROVE MergePointsRight
  BY Zenon
<1>1. /\ \A k \in DOMAIN diagonals : diagonals[k] # Unset =>
            /\ OnPath(diagonals[k][1], diagonals[k][2])
            /\ diagonals[k][1] + diagonals[k][2] = (k + 1) * W - 1
      /\ \A d \in DOMAIN path : path[d] # Unset =>
            /\ OnPath(path[d][1], path[d][2])
            /\ path[d][1] + path[d][2] = d
  BY Zenon DEF PathInv, PointsSound, Diag
<1>2. ASSUME kernel = "eval", ~ misled,
             NEW a \in 0 .. colABlockSize - 1, NEW b \in 0 .. colBBlockSize - 1,
             KeyA(a) = KeyB(b)
      PROVE  path[a + b] = <<a, b>>
  <2>1. /\ BlocksOK /\ colABlock # <<>> /\ colBBlock # <<>>
        /\ path \in [0 .. diagonalCount(colABlockSize, colBBlockSize) - 1 -> Points]
    BY <1>2, Zenon DEF PathInv, PathTypes
  <2>2. a + b \in 0 .. diagonalCount(colABlockSize, colBBlockSize) - 1
    BY <2>1, Counts DEF diagonalCount
  <2>3. path[a + b] # Unset
    BY <1>2, <2>2, Zenon DEF PathInv, Complete, AllFound
  <2>4. path[a + b] \in Nat \X Nat
    BY <2>1, <2>2, <2>3, Zenon DEF Points
  <2>5. OnPath(path[a + b][1], path[a + b][2]) /\ path[a + b][1] + path[a + b][2] = a + b
    BY <1>1, <2>1, <2>2, <2>3, Zenon
  <2>6. OnPath(a, b)
    BY <1>2, <2>1, EqualKeysOnPath, Zenon
  <2>7. PICK x \in Nat, y \in Nat : path[a + b] = <<x, y>>
    BY <2>4
  <2>8. OnPath(x, y) /\ x + y = a + b
    BY <2>5, <2>7
  <2>9. x = a /\ y = b
    BY <2>1, <2>6, <2>8, PathPointUnique, Zenon
  <2> QED  BY <2>7, <2>9, Zenon
<1> QED  BY <1>1, <1>2, Zenon DEF MergePointsRight

-----------------------------------------------------------------------------
(* A turn of the loop *)

\* The middle of the window is a point of the diagonal.
LEMMA MiddleOnDiagonal ==
    ASSUME PathTypes, Searching, kernel \in {"partition", "path"}, InLoop
    PROVE  /\ aMid \in search.aBeg .. search.aEnd /\ aMid \in Nat /\ bMid \in Nat
           /\ aMid + bMid = Diagonal /\ Diagonal \in Int
<1>1. /\ search.i \in Nat
      /\ search.aBeg \in Int /\ search.aEnd \in Int /\ search.bBeg \in Int /\ search.bEnd \in Int
      /\ search.aBeg >= 0 /\ search.bBeg >= 0
      /\ search.aBeg <= search.aEnd /\ search.bBeg <= search.bEnd
      /\ search.aBeg + search.bEnd = Diagonal
      /\ search.aEnd + search.bBeg = Diagonal
  BY Zenon DEF Searching, InLoop
<1>2. search.aEnd - search.aBeg = search.bEnd - search.bBeg
  BY <1>1
<1> QED  BY <1>1, <1>2 DEF aMid, bMid

\* The bounds after a turn up or down the diagonal.
LEMMA NarrowedBounds ==
    ASSUME NEW s \in [i : Nat, aBeg : Int, aEnd : Int, bBeg : Int, bEnd : Int],
           NEW x \in Int, NEW y \in Int
    PROVE  LET up == [s EXCEPT !.aEnd = x, !.bBeg = y]
               down == [s EXCEPT !.aBeg = x, !.bEnd = y]
           IN  /\ up \in [i : Nat, aBeg : Int, aEnd : Int, bBeg : Int, bEnd : Int]
               /\ up.i = s.i /\ up.aBeg = s.aBeg /\ up.aEnd = x /\ up.bBeg = y /\ up.bEnd = s.bEnd
               /\ down \in [i : Nat, aBeg : Int, aEnd : Int, bBeg : Int, bEnd : Int]
               /\ down.i = s.i /\ down.aBeg = x /\ down.aEnd = s.aEnd /\ down.bBeg = s.bBeg
               /\ down.bEnd = y
<1> DEFINE up == [s EXCEPT !.aEnd = x, !.bBeg = y]
           down == [s EXCEPT !.aBeg = x, !.bEnd = y]
<1>1. /\ up \in [i : Nat, aBeg : Int, aEnd : Int, bBeg : Int, bEnd : Int]
      /\ down \in [i : Nat, aBeg : Int, aEnd : Int, bBeg : Int, bEnd : Int]
  BY Zenon
<1>2. up.i = s.i /\ up.aBeg = s.aBeg /\ up.aEnd = x /\ up.bBeg = y /\ up.bEnd = s.bEnd
  BY SMT
<1>3. down.i = s.i /\ down.aBeg = x /\ down.aEnd = s.aEnd /\ down.bBeg = s.bBeg /\ down.bEnd = y
  BY SMT
<1> QED  BY <1>1, <1>2, <1>3, Zenon

\* The turn leaves a window, in which the point that is looked for stays.
LEMMA TurnKeepsWindow ==
    ASSUME PathTypes, Searching, NEW before \in Garbage, Probe(before)
    PROVE  /\ Searching'
           /\ search'.i = search.i /\ Diagonal' = Diagonal
           /\ \A a \in Nat :
                 /\ OnPath(a, Diagonal - a) /\ a \in search.aBeg .. search.aEnd
                 /\ ~ Misleading(aMid, bMid, Verdict(aMid, bMid, before))
                 /\ Verdict(aMid, bMid, before) # "here"
                 => a \in search'.aBeg .. search'.aEnd
<1> DEFINE v == Verdict(aMid, bMid, before)
<1>1. kernel \in {"partition", "path"} /\ InLoop /\ Narrow(v)
      /\ UNCHANGED <<kernel, colABlock, colBBlock>>
  BY Zenon DEF Probe
<1>2. BlocksOK /\ before \in Int
  BY <1>1, GarbageAssumption, Zenon DEF PathTypes
<1>3. /\ aMid \in search.aBeg .. search.aEnd /\ aMid \in Nat /\ bMid \in Nat
      /\ aMid + bMid = Diagonal /\ Diagonal \in Int
  BY <1>1, MiddleOnDiagonal, Zenon
<1>4. /\ search \in [i : Nat, aBeg : Int, aEnd : Int, bBeg : Int, bEnd : Int]
      /\ search.aBeg >= 0 /\ search.bBeg >= 0
      /\ search.aBeg + search.bEnd = Diagonal
      /\ search.aEnd + search.bBeg = Diagonal
      /\ kernel = "partition" =>
            search.i < diagonalCountRounded(colABlockSize, colBBlockSize)
      /\ kernel = "path" => search.i < diagonalCount(colABlockSize, colBBlockSize)
  BY <1>1, Zenon DEF Searching, InLoop
<1> HIDE DEF v
<1>5. /\ search' \in [i : Nat, aBeg : Int, aEnd : Int, bBeg : Int, bEnd : Int]
      /\ search'.i = search.i /\ search'.aBeg >= 0 /\ search'.bBeg >= 0
      /\ search'.aBeg <= search'.aEnd => /\ search'.aBeg + search'.bEnd = Diagonal
                                         /\ search'.aEnd + search'.bBeg = Diagonal
  <2>1. CASE v = "up"
    <3>1. search' = [search EXCEPT !.aEnd = aMid - 1, !.bBeg = bMid + 1]
      BY <1>1, <2>1, Zenon DEF Narrow
    <3>2. aMid - 1 \in Int /\ bMid + 1 \in Int /\ bMid + 1 >= 0 /\ (aMid - 1) + (bMid + 1) = Diagonal
      BY <1>3
    <3>3. /\ search' \in [i : Nat, aBeg : Int, aEnd : Int, bBeg : Int, bEnd : Int]
          /\ search'.i = search.i /\ search'.aBeg = search.aBeg /\ search'.bEnd = search.bEnd
          /\ search'.aEnd = aMid - 1 /\ search'.bBeg = bMid + 1
      BY <1>4, <3>1, <3>2, NarrowedBounds, Zenon
    <3> QED  BY <1>4, <3>2, <3>3, Zenon
  <2>2. CASE v = "down"
    <3>1. search' = [search EXCEPT !.aBeg = aMid + 1, !.bEnd = bMid - 1]
      BY <1>1, <2>2, Zenon DEF Narrow
    <3>2. aMid + 1 \in Int /\ aMid + 1 >= 0 /\ bMid - 1 \in Int /\ (aMid + 1) + (bMid - 1) = Diagonal
      BY <1>3
    <3>3. /\ search' \in [i : Nat, aBeg : Int, aEnd : Int, bBeg : Int, bEnd : Int]
          /\ search'.i = search.i /\ search'.aEnd = search.aEnd /\ search'.bBeg = search.bBeg
          /\ search'.aBeg = aMid + 1 /\ search'.bEnd = bMid - 1
      BY <1>4, <3>1, <3>2, NarrowedBounds, Zenon
    <3> QED  BY <1>4, <3>2, <3>3, Zenon
  <2>3. CASE v # "up" /\ v # "down"
    <3>1. search' = [search EXCEPT !.aEnd = search.aBeg - 1]
      BY <1>1, <2>3, Zenon DEF Narrow
    <3> QED  BY <1>3, <1>4, <3>1
  <2> QED  BY <2>1, <2>2, <2>3, Zenon
<1>6. Diagonal' = Diagonal
  BY <1>1, <1>5, Zenon DEF Diagonal
<1>7. Searching'
  BY <1>1, <1>4, <1>5, <1>6, Zenon
     DEF Searching, diagonalCountRounded, diagonalCount, Rounded, colABlockSize, colBBlockSize
<1>8. ASSUME NEW a \in Nat, OnPath(a, Diagonal - a), a \in search.aBeg .. search.aEnd,
             ~ Misleading(aMid, bMid, v), v # "here"
      PROVE  a \in search'.aBeg .. search'.aEnd
  <2>1. a + (Diagonal - a) = aMid + bMid
    BY <1>3
  <2>2. (v = "up" /\ a <= aMid - 1) \/ (v = "down" /\ a >= aMid + 1)
    BY <1>2, <1>3, <1>8, <2>1, VerdictTurnsRight, Zenon DEF v
  <2>3. CASE v = "up"
    <3>1. search'.aBeg = search.aBeg /\ search'.aEnd = aMid - 1
      BY <1>1, <1>4, <2>3, Zenon DEF Narrow
    <3> QED  BY <1>3, <1>4, <1>8, <2>2, <2>3, <3>1
  <2>4. CASE v = "down"
    <3>1. search'.aBeg = aMid + 1 /\ search'.aEnd = search.aEnd
      BY <1>1, <1>4, <2>4, Zenon DEF Narrow
    <3> QED  BY <1>3, <1>4, <1>8, <2>2, <2>4, <3>1
  <2> QED  BY <2>2, <2>3, <2>4, Zenon
<1> QED  BY <1>5, <1>6, <1>7, <1>8, Zenon DEF v

\* The step of a turn on what has been written: a point of the path is written
\* to the place of the thread's diagonal, or nothing.
LEMMA TurnWrites ==
    ASSUME PathTypes, Searching, NEW before \in Garbage, Probe(before)
    PROVE  LET here == Verdict(aMid, bMid, before) = "here"
           IN  /\ here => /\ <<aMid, bMid>> \in Nat \X Nat /\ OnPath(aMid, bMid)
                          /\ aMid + bMid = Diagonal
               /\ diagonals' = IF kernel = "partition" /\ here
                               THEN [diagonals EXCEPT ![search.i \div W] = <<aMid, bMid>>]
                               ELSE diagonals
               /\ path' = IF kernel = "path" /\ here
                          THEN [path EXCEPT ![search.i] = <<aMid, bMid>>]
                          ELSE path
<1>1. kernel \in {"partition", "path"} /\ InLoop
  BY Zenon DEF Probe
<1>2. BlocksOK /\ before \in Int
  BY <1>1, GarbageAssumption, Zenon DEF PathTypes
<1>3. aMid \in Nat /\ bMid \in Nat /\ aMid + bMid = Diagonal
  BY <1>1, MiddleOnDiagonal, Zenon
<1>4. Verdict(aMid, bMid, before) = "here" => OnPath(aMid, bMid)
  BY <1>2, <1>3, HereIsOnPath, Zenon
<1>5. kernel = "path" => aMid + bMid = search.i
  BY <1>3, Zenon DEF Diagonal
<1>6. /\ diagonals' = IF kernel = "partition" /\ Verdict(aMid, bMid, before) = "here"
                      THEN [diagonals EXCEPT ![search.i \div W] = <<aMid, bMid>>]
                      ELSE diagonals
      /\ path' = IF kernel = "path" /\ Verdict(aMid, bMid, before) = "here"
                 THEN [path EXCEPT ![aMid + bMid] = <<aMid, bMid>>]
                 ELSE path
  BY Zenon DEF Probe
<1> QED  BY <1>3, <1>4, <1>5, <1>6, Zenon

\* What the blocks say is the same as long as they are the same.
LEMMA SameBlocks ==
    ASSUME UNCHANGED <<colABlock, colBBlock>>
    PROVE  /\ colABlockSize' = colABlockSize /\ colBBlockSize' = colBBlockSize
           /\ BlocksOK' <=> BlocksOK
           /\ \A a, b : OnPath(a, b)' <=> OnPath(a, b)
           /\ \A j, a : Covers(j, a)' <=> Covers(j, a)
<1>1. colABlockSize' = colABlockSize /\ colBBlockSize' = colBBlockSize
  BY Zenon DEF colABlockSize, colBBlockSize
<1>2. BlocksOK' <=> BlocksOK
  BY Zenon DEF BlocksOK, SortedKeys, UniqueKeys
<1>3. \A a, b : OnPath(a, b)' <=> OnPath(a, b)
  BY <1>1, Zenon DEF OnPath, KeyA, KeyB
<1>4. \A j, a : Covers(j, a)' <=> Covers(j, a)
  BY <1>1, <1>3 DEF Covers, PartitionBounds, Rounded, Diag
<1> QED  BY <1>1, <1>2, <1>3, <1>4, Zenon

\* A point is not the mark for none.
LEMMA PointIsSet == \A p \in Nat \X Nat : p # Unset
BY DEF Unset

\* A turn keeps types and soundness.
LEMMA TurnSound ==
    ASSUME PathTypes, PointsSound, Searching, NEW before \in Garbage, Probe(before)
    PROVE  PathTypes' /\ PointsSound'
<1> DEFINE here == Verdict(aMid, bMid, before) = "here"
           pt == <<aMid, bMid>>
<1>1. kernel \in {"partition", "path"} /\ UNCHANGED <<kernel, colABlock, colBBlock>>
  BY Zenon DEF Probe
<1>2. /\ here => pt \in Nat \X Nat /\ OnPath(aMid, bMid) /\ aMid + bMid = Diagonal
      /\ diagonals' = IF kernel = "partition" /\ here
                      THEN [diagonals EXCEPT ![search.i \div W] = pt]
                      ELSE diagonals
      /\ path' = IF kernel = "path" /\ here
                 THEN [path EXCEPT ![search.i] = pt]
                 ELSE path
  BY TurnWrites, Zenon
<1>3. /\ colABlockSize' = colABlockSize /\ colBBlockSize' = colBBlockSize
      /\ BlocksOK' <=> BlocksOK
      /\ \A a, b : OnPath(a, b)' <=> OnPath(a, b)
  BY <1>1, SameBlocks, Zenon
<1>4. /\ BlocksOK /\ colABlock # <<>> /\ colBBlock # <<>>
      /\ diagonals \in
           [0 .. diagonalCountRounded(colABlockSize, colBBlockSize) \div W -> Points]
      /\ path \in [0 .. diagonalCount(colABlockSize, colBBlockSize) - 1 -> Points]
  BY <1>1, Zenon DEF PathTypes
<1>5. pt[1] = aMid /\ pt[2] = bMid
  BY Zenon
<1> HIDE DEF here, pt
<1>6. /\ diagonals' \in
           [0 .. diagonalCountRounded(colABlockSize, colBBlockSize) \div W -> Points]
      /\ path' \in [0 .. diagonalCount(colABlockSize, colBBlockSize) - 1 -> Points]
  BY <1>2, <1>4, Zenon DEF Points
<1>7. PathTypes'
  BY <1>1, <1>3, <1>4, <1>6, Zenon DEF PathTypes, diagonalCountRounded, diagonalCount, Rounded
<1>8. ASSUME NEW k \in DOMAIN diagonals', diagonals'[k] # Unset
      PROVE  /\ OnPath(diagonals'[k][1], diagonals'[k][2])
             /\ diagonals'[k][1] + diagonals'[k][2] = Diag(k)
  <2>1. CASE kernel = "partition" /\ here /\ k = search.i \div W
    <3>1. diagonals'[k] = pt
      BY <1>2, <1>8, <2>1, Zenon
    <3>2. Diagonal = Diag(k)
      BY <2>1, Zenon DEF Diagonal
    <3> QED  BY <1>2, <1>5, <2>1, <3>1, <3>2, Zenon
  <2>2. CASE ~ (kernel = "partition" /\ here /\ k = search.i \div W)
    <3>1. k \in DOMAIN diagonals /\ diagonals'[k] = diagonals[k]
      BY <1>2, <1>8, <2>2, Zenon
    <3> QED  BY <1>8, <3>1, Zenon DEF PointsSound
  <2> QED  BY <2>1, <2>2, Zenon
<1>9. ASSUME NEW d \in DOMAIN path', path'[d] # Unset
      PROVE  /\ OnPath(path'[d][1], path'[d][2])
             /\ path'[d][1] + path'[d][2] = d
  <2>1. CASE kernel = "path" /\ here /\ d = search.i
    <3>1. path'[d] = pt
      BY <1>2, <1>9, <2>1, Zenon
    <3>2. Diagonal = d
      BY <2>1, Zenon DEF Diagonal
    <3> QED  BY <1>2, <1>5, <2>1, <3>1, <3>2, Zenon
  <2>2. CASE ~ (kernel = "path" /\ here /\ d = search.i)
    <3>1. d \in DOMAIN path /\ path'[d] = path[d]
      BY <1>2, <1>9, <2>2, Zenon
    <3> QED  BY <1>9, <3>1, Zenon DEF PointsSound
  <2> QED  BY <2>1, <2>2, Zenon
<1>10. PointsSound'
  BY <1>3, <1>8, <1>9, Zenon DEF PointsSound, Diag, Unset, OnPath, KeyA, KeyB
<1> QED  BY <1>7, <1>10, Zenon

\* A turn that does not mislead loses nothing that is still to be found.
LEMMA TurnComplete ==
    ASSUME PathInv, NEW before \in Garbage, Probe(before)
    PROVE  Complete'
<1> DEFINE v == Verdict(aMid, bMid, before)
<1> SUFFICES ASSUME ~ misled'
             PROVE  /\ kernel' = "partition" => PartitionComplete'
                    /\ kernel' = "path" => DiagonalsComplete' /\ PathComplete'
                    /\ kernel' = "eval" => AllFound'
  BY Zenon DEF Complete
<1>1. /\ kernel \in {"partition", "path"} /\ UNCHANGED <<kernel, colABlock, colBBlock>>
      /\ ~ misled /\ ~ Misleading(aMid, bMid, v)
  BY Zenon DEF Probe
<1>2. PathTypes /\ Searching /\ Complete
  BY Zenon DEF PathInv
<1>3. /\ v = "here" => <<aMid, bMid>> \in Nat \X Nat
      /\ diagonals' = IF kernel = "partition" /\ v = "here"
                      THEN [diagonals EXCEPT ![search.i \div W] = <<aMid, bMid>>]
                      ELSE diagonals
      /\ path' = IF kernel = "path" /\ v = "here"
                 THEN [path EXCEPT ![search.i] = <<aMid, bMid>>]
                 ELSE path
  BY <1>2, TurnWrites, Zenon
<1>4. /\ search'.i = search.i
      /\ \A a \in Nat : /\ OnPath(a, Diagonal - a) /\ a \in search.aBeg .. search.aEnd
                        /\ v # "here"
                        => a \in search'.aBeg .. search'.aEnd
  BY <1>1, <1>2, TurnKeepsWindow, Zenon
<1>5. /\ colABlockSize' = colABlockSize /\ colBBlockSize' = colBBlockSize
      /\ \A a, b : OnPath(a, b)' <=> OnPath(a, b)
      /\ \A j, a : Covers(j, a)' <=> Covers(j, a)
  BY <1>1, SameBlocks, Zenon
<1>6. v = "here" => <<aMid, bMid>> # Unset
  BY <1>3, PointIsSet, Zenon
<1>7. /\ BlocksOK /\ colABlock # <<>> /\ colBBlock # <<>>
      /\ DOMAIN diagonals = 0 .. diagonalCountRounded(colABlockSize, colBBlockSize) \div W
      /\ DOMAIN path = 0 .. diagonalCount(colABlockSize, colBBlockSize) - 1
      /\ search.i \in Nat
  BY <1>1, <1>2, Zenon DEF PathTypes, Searching
<1> HIDE DEF v
<1>8. ASSUME kernel = "partition"
      PROVE  PartitionComplete'
  <2>1. PartitionComplete
    BY <1>1, <1>2, <1>8, Zenon DEF Complete
  <2>2. search.i \div W \in DOMAIN diagonals
    <3>1. search.i <= diagonalCountRounded(colABlockSize, colBBlockSize)
          /\ diagonalCountRounded(colABlockSize, colBBlockSize) \in Nat
      BY <1>2, <1>7, <1>8, Counts DEF Searching
    <3> QED  BY <1>7, <3>1, DiagonalsInRange, Zenon
  <2>3. \A k : diagonals[k] # Unset => diagonals'[k] # Unset
    BY <1>3, <1>6, <2>2
  <2>4. v = "here" => diagonals'[search.i \div W] # Unset
    BY <1>3, <1>6, <1>8, <2>2, Zenon
  <2>5. ASSUME NEW a \in Nat, Covers(search.i, a)
        PROVE  diagonals'[search.i \div W] # Unset \/ a \in search'.aBeg .. search'.aEnd
    <3>1. OnPath(a, Diagonal - a)
      BY <1>8, <2>5, Zenon DEF Covers, Diagonal
    <3>2. diagonals[search.i \div W] # Unset \/ a \in search.aBeg .. search.aEnd
      BY <2>1, <2>5, Zenon DEF PartitionComplete
    <3> QED  BY <1>4, <2>3, <2>4, <3>1, <3>2, Zenon
  <2>6. \A j \in Nat : j < search.i =>
           \A a \in Nat : Covers(j, a) => diagonals'[j \div W] # Unset
    BY <2>1, <2>3, Zenon DEF PartitionComplete
  <2>7. Unset' = Unset
    BY Zenon DEF Unset
  <2> QED  BY <1>4, <1>5, <2>5, <2>6, <2>7, Zenon DEF PartitionComplete
<1>9. ASSUME kernel = "path"
      PROVE  DiagonalsComplete' /\ PathComplete'
  <2>1. DiagonalsComplete /\ PathComplete
    BY <1>1, <1>2, <1>9, Zenon DEF Complete
  <2>2. search.i \in DOMAIN path
    BY <1>2, <1>7, <1>9, Counts DEF Searching
  <2>3. \A d : path[d] # Unset => path'[d] # Unset
    BY <1>3, <1>6, <2>2
  <2>4. v = "here" => path'[search.i] # Unset
    BY <1>3, <1>6, <1>9, <2>2, Zenon
  <2>5. ASSUME NEW a \in Nat, OnPath(a, search.i - a)
        PROVE  path'[search.i] # Unset \/ a \in search'.aBeg .. search'.aEnd
    <3>1. OnPath(a, Diagonal - a)
      BY <1>9, <2>5, Zenon DEF Diagonal
    <3>2. path[search.i] # Unset \/ a \in search.aBeg .. search.aEnd
      BY <2>1, <2>5, Zenon DEF PathComplete
    <3> QED  BY <1>4, <2>3, <2>4, <3>1, <3>2, Zenon
  <2>6. \A d \in Nat : d < search.i => path'[d] # Unset
    BY <2>1, <2>3, Zenon DEF PathComplete
  <2>7. Unset' = Unset
    BY Zenon DEF Unset
  <2>8. PathComplete'
    BY <1>4, <1>5, <2>5, <2>6, <2>7, Zenon DEF PathComplete
  <2>9. diagonals' = diagonals
    BY <1>3, <1>9, Zenon
  <2>10. DiagonalsComplete'
    BY <1>5, <2>1, <2>9, Zenon DEF DiagonalsComplete, diagonalCount, Diag, Unset
  <2> QED  BY <2>8, <2>10, Zenon
<1> QED  BY <1>1, <1>8, <1>9, Zenon

-----------------------------------------------------------------------------
(* The other steps *)

\* A thread that has left the loop has emptied its window, or broken off.
LEMMA WindowEmpty ==
    ASSUME Searching, kernel \in {"partition", "path"}, ~ InLoop
    PROVE  search.aBeg .. search.aEnd = {} /\ search.i \in Nat
<1>1. /\ search.i \in Nat
      /\ search.aBeg \in Int /\ search.aEnd \in Int /\ search.bBeg \in Int /\ search.bEnd \in Int
      /\ search.aBeg <= search.aEnd => /\ search.aBeg + search.bEnd = Diagonal
                                       /\ search.aEnd + search.bBeg = Diagonal
  BY Zenon DEF Searching
<1>2. ~ (search.aBeg <= search.aEnd)
  <2> SUFFICES ASSUME search.aBeg <= search.aEnd PROVE FALSE
    BY Zenon
  <2>1. search.bBeg <= search.bEnd
    BY <1>1
  <2> QED  BY <2>1, Zenon DEF InLoop
<1> QED  BY <1>1, <1>2

\* When the first kernel ends, every diagonal of it has its point.
LEMMA PartitionEnds ==
    ASSUME PathInv, kernel = "partition", ~ InLoop, ~ misled,
           ~ (search.i + 1 < diagonalCountRounded(colABlockSize, colBBlockSize))
    PROVE  DiagonalsComplete
<1>1. BlocksOK /\ colABlock # <<>> /\ colBBlock # <<>> /\ Searching /\ PartitionComplete
      /\ DOMAIN diagonals = 0 .. diagonalCountRounded(colABlockSize, colBBlockSize) \div W
  BY Zenon DEF PathInv, PathTypes, Complete
<1>2. search.aBeg .. search.aEnd = {} /\ search.i \in Nat
  BY <1>1, WindowEmpty, Zenon
<1> SUFFICES ASSUME NEW k \in Nat, Diag(k) < diagonalCount(colABlockSize, colBBlockSize)
             PROVE  k \in DOMAIN diagonals /\ diagonals[k] # Unset
  BY Zenon DEF DiagonalsComplete
<1>3. Diag(k) \in Nat
  BY BlockDimAssumption DEF Diag
<1>4. PICK a \in Nat : OnPath(a, Diag(k) - a)
  <2>1. Diag(k) \in 0 .. diagonalCount(colABlockSize, colBBlockSize) - 1
    BY <1>1, <1>3, Counts
  <2> QED  BY <1>1, <2>1, PathPointExists, Zenon
<1>5. PICK i \in 0 .. diagonalCountRounded(colABlockSize, colBBlockSize) - 1 :
              /\ i \div W = k
              /\ a \in PartitionBounds(i, colABlockSize, colBBlockSize).aBeg
                       .. PartitionBounds(i, colABlockSize, colBBlockSize).aEnd
  BY <1>1, <1>4, PartitionCovers, Zenon
<1>6. Covers(i, a)
  BY <1>4, <1>5, Zenon DEF Covers
<1>7. i \in Nat /\ (i < search.i \/ i = search.i)
  BY <1>1, <1>2, <1>5, Counts
<1>8. diagonals[k] # Unset
  BY <1>1, <1>2, <1>5, <1>6, <1>7, Zenon DEF PartitionComplete
<1>9. k \in DOMAIN diagonals
  BY <1>1, DiagonalHasPlace, Zenon
<1> QED  BY <1>8, <1>9, Zenon

\* A thread of the second kernel starts from a point of the path before its
\* diagonal, or from the corner.
LEMMA BaseOnPath ==
    ASSUME PathTypes, PointsSound, kernel # "none", NEW n \in Nat,
           n < diagonalCount(colABlockSize, colBBlockSize)
    PROVE  /\ DiagonalsComplete => Base(n) # Unset
           /\ Base(n) # Unset =>
                /\ Base(n) \in Nat \X Nat
                /\ IF (n + 1) \div W = 0 THEN Base(n) = <<0, 0>>
                   ELSE /\ Base(n)[1] + Base(n)[2] = Diag((n + 1) \div W - 1)
                        /\ OnPath(Base(n)[1], Base(n)[2])
<1> DEFINE q == (n + 1) \div W
<1>1. /\ BlocksOK /\ colABlock # <<>> /\ colBBlock # <<>>
      /\ diagonals \in
           [0 .. diagonalCountRounded(colABlockSize, colBBlockSize) \div W -> Points]
  BY Zenon DEF PathTypes
<1>2. n + 1 \in Nat /\ W \in Nat
  BY BlockDimAssumption
<1>3. q \in Nat /\ (n + 1) % W \in 0 .. W - 1 /\ n + 1 = q * W + ((n + 1) % W)
  BY <1>2, DivMod, Zenon
<1>4. CASE q = 0
  <2>1. Base(n) = <<0, 0>>
    BY <1>4, Zenon DEF Base
  <2>2. <<0, 0>> \in Nat \X Nat /\ <<0, 0>> # Unset
    BY DEF Unset
  <2> QED  BY <1>4, <2>1, <2>2, Zenon
<1>5. CASE q # 0
  <2>1. Base(n) = diagonals[q - 1] /\ q - 1 \in Nat
    BY <1>3, <1>5 DEF Base
  <2>2. q * W \in Nat /\ Diag(q - 1) = q * W - 1
    BY <1>2, <1>3 DEF Diag
  <2>3. Diag(q - 1) < diagonalCount(colABlockSize, colBBlockSize)
    <3>1. diagonalCount(colABlockSize, colBBlockSize) \in Nat
      BY <1>1, Counts, Zenon
    <3> HIDE DEF q
    <3> QED  BY <1>2, <1>3, <2>2, <3>1
  <2> HIDE DEF q
  <2>4. q - 1 \in DOMAIN diagonals
    BY <1>1, <2>1, <2>3, DiagonalHasPlace, Zenon
  <2>5. DiagonalsComplete => Base(n) # Unset
    BY <2>1, <2>3, Zenon DEF DiagonalsComplete
  <2>6. ASSUME Base(n) # Unset
        PROVE  /\ Base(n) \in Nat \X Nat
               /\ Base(n)[1] + Base(n)[2] = Diag(q - 1)
               /\ OnPath(Base(n)[1], Base(n)[2])
    <3>1. diagonals[q - 1] \in Points
      BY <1>1, <2>4, Zenon
    <3> QED  BY <2>1, <2>4, <2>6, <3>1, Zenon DEF Points, PointsSound
  <2> QED  BY <1>5, <2>5, <2>6, Zenon DEF q
<1> QED  BY <1>4, <1>5, Zenon

\* The second kernel goes on with thread n when the threads before it are done.
LEMMA BeginPathKeeps ==
    ASSUME PathTypes, PointsSound, kernel # "none", NEW n \in Nat,
           ~ misled => /\ DiagonalsComplete
                       /\ \A d \in Nat : d < n => path[d] # Unset,
           BeginPath(n), UNCHANGED <<colABlock, colBBlock, diagonals, path, misled>>
    PROVE  PathInv'
<1> DEFINE m == diagonalCount(colABlockSize, colBBlockSize)
<1>1. /\ colABlockSize' = colABlockSize /\ colBBlockSize' = colBBlockSize
      /\ BlocksOK' <=> BlocksOK
      /\ \A a, b : OnPath(a, b)' <=> OnPath(a, b)
  BY SameBlocks, Zenon
<1>2. kernel' \in {"path", "eval"}
  BY Zenon DEF BeginPath
<1>3. /\ BlocksOK /\ colABlock # <<>> /\ colBBlock # <<>>
      /\ diagonals \in
           [0 .. diagonalCountRounded(colABlockSize, colBBlockSize) \div W -> Points]
      /\ path \in [0 .. diagonalCount(colABlockSize, colBBlockSize) - 1 -> Points]
  BY Zenon DEF PathTypes
<1>4. PathTypes'
  BY <1>1, <1>2, <1>3, Zenon DEF PathTypes, diagonalCountRounded, diagonalCount, Rounded, Points, Unset
<1>5. PointsSound'
  BY <1>1, Zenon DEF PointsSound, Diag, Unset, OnPath, KeyA, KeyB
<1>6. m \in Nat /\ m' = m
  BY <1>1, <1>3, Counts, Zenon DEF diagonalCount
<1>7. CASE n < m /\ Base(n) # Unset
  <2>1. kernel' = "path" /\ search' = PathBounds(n, Base(n))
    BY <1>7, Zenon DEF BeginPath
  <2>2. /\ Base(n) \in Nat \X Nat
        /\ IF (n + 1) \div W = 0 THEN Base(n) = <<0, 0>>
           ELSE /\ Base(n)[1] + Base(n)[2] = Diag((n + 1) \div W - 1)
                /\ OnPath(Base(n)[1], Base(n)[2])
    BY <1>7, BaseOnPath, Zenon
  <2>3. IsWindow(search', n, n)
    BY <2>1, <2>2, PathWindow, Zenon
  <2>4. Diagonal' = n
    BY <2>1, <2>3, Zenon DEF Diagonal, IsWindow
  <2>5. Searching'
    BY <1>6, <1>7, <2>1, <2>3, <2>4, Zenon DEF Searching, IsWindow
  <2>6. ASSUME NEW a \in Nat, OnPath(a, n - a)
        PROVE  a \in search'.aBeg .. search'.aEnd
    <3>1. search'.aBeg = Base(n)[1] /\ search'.bBeg = Base(n)[2]
      BY <2>1, Zenon DEF PathBounds
    <3>2. Base(n)[1] \in Nat /\ Base(n)[2] \in Nat
      BY <2>2, Zenon
    <3>3. Base(n)[1] <= a /\ Base(n)[2] <= n - a
      <4>1. CASE (n + 1) \div W = 0
        <5>1. Base(n)[1] = 0 /\ Base(n)[2] = 0
          BY <2>2, <4>1
        <5>2. n - a >= 0
          BY <1>3, <2>6, KeysSorted DEF OnPath
        <5> QED  BY <5>1, <5>2
      <4>2. CASE (n + 1) \div W # 0
        <5>1. OnPath(Base(n)[1], Base(n)[2])
          BY <2>2, <4>2, Zenon
        <5>2. Base(n)[1] + Base(n)[2] <= a + (n - a)
          <6>1. /\ search'.aBeg + search'.bEnd = n /\ search'.aEnd + search'.bBeg = n
                /\ search'.aBeg \in Int /\ search'.aEnd \in Int
            BY <2>3, Zenon DEF IsWindow
          <6>2. search'.aBeg <= search'.aEnd
            <7>1. (n + 1) \div W \in Nat /\ (n + 1) % W \in 0 .. W - 1
              BY n + 1 \in Nat, DivMod, Zenon
            <7>2. search'.aEnd = Base(n)[1] + ((n + 1) % W)
              BY <2>1, <4>2, Zenon DEF PathBounds
            <7> QED  BY <3>1, <3>2, <7>1, <7>2, BlockDimAssumption
          <6> QED  BY <3>1, <3>2, <6>1, <6>2
        <5> QED  BY <1>3, <2>6, <5>1, <5>2, PathMonotone, Zenon
      <4> QED  BY <4>1, <4>2, Zenon
    <3>4. search'.aEnd + search'.bBeg = n /\ search'.aEnd \in Int
      BY <2>3, Zenon DEF IsWindow
    <3> QED  BY <3>1, <3>2, <3>3, <3>4
  <2>7. search'.i = n
    BY <2>3, Zenon DEF IsWindow
  <2>8. ~ misled => DiagonalsComplete'
    BY <1>6, Zenon DEF DiagonalsComplete, Diag, Unset
  <2>9. ~ misled => PathComplete'
    BY <1>1, <2>6, <2>7, Zenon DEF PathComplete, Unset
  <2>10. Complete'
    BY <2>1, <2>8, <2>9, Zenon DEF Complete
  <2> QED  BY <1>4, <1>5, <2>5, <2>10, Zenon DEF PathInv
<1>8. CASE ~ (n < m /\ Base(n) # Unset)
  <2>1. kernel' = "eval"
    BY <1>8, Zenon DEF BeginPath
  <2>2. ~ misled => ~ (n < m)
    BY <1>8, BaseOnPath, Zenon
  <2>3. ~ misled => AllFound'
    <3> SUFFICES ASSUME ~ misled, NEW d \in 0 .. m - 1 PROVE path[d] # Unset
      BY <1>6, Zenon DEF AllFound, Unset
    <3>1. d \in Nat /\ d < n
      BY <1>6, <2>2
    <3> QED  BY <3>1, Zenon
  <2>4. Searching' /\ Complete'
    BY <2>1, <2>3, Zenon DEF Searching, Complete
  <2> QED  BY <1>4, <1>5, <2>4, Zenon DEF PathInv
<1> QED  BY <1>7, <1>8, Zenon

\* The next thread of either kernel begins.
LEMMA NextThreadKeeps ==
    ASSUME PathInv, NextThread
    PROVE  PathInv'
<1>1. /\ kernel \in {"partition", "path"} /\ ~ InLoop
      /\ UNCHANGED <<colABlock, colBBlock, diagonals, path, misled>>
  BY Zenon DEF NextThread
<1>2. PathTypes /\ PointsSound /\ Searching /\ Complete
  BY Zenon DEF PathInv
<1>3. search.aBeg .. search.aEnd = {} /\ search.i \in Nat
  BY <1>1, <1>2, WindowEmpty, Zenon
<1>4. /\ BlocksOK /\ colABlock # <<>> /\ colBBlock # <<>>
      /\ diagonals \in
           [0 .. diagonalCountRounded(colABlockSize, colBBlockSize) \div W -> Points]
      /\ path \in [0 .. diagonalCount(colABlockSize, colBBlockSize) - 1 -> Points]
  BY <1>1, <1>2, Zenon DEF PathTypes
<1>5. /\ colABlockSize' = colABlockSize /\ colBBlockSize' = colBBlockSize
      /\ BlocksOK' <=> BlocksOK
      /\ \A a, b : OnPath(a, b)' <=> OnPath(a, b)
      /\ \A j, a : Covers(j, a)' <=> Covers(j, a)
  BY <1>1, SameBlocks, Zenon
<1>6. CASE /\ kernel = "partition"
           /\ search.i + 1 < diagonalCountRounded(colABlockSize, colBBlockSize)
  <2> DEFINE i == search.i + 1
  <2>1. search' = PartitionBounds(i, colABlockSize, colBBlockSize) /\ kernel' = kernel
    BY <1>6, Zenon DEF NextThread
  <2>2. i \in Nat /\ colABlockSize \in Nat /\ colBBlockSize \in Nat
    BY <1>3, <1>4, Counts
  <2>3. IsWindow(search', i, Diag(i \div W))
    BY <2>1, <2>2, PartitionWindow, Zenon
  <2>4. search'.i = i /\ Diagonal' = Diag(i \div W)
    BY <1>6, <2>1, <2>3, Zenon DEF IsWindow, Diagonal, Diag
  <2> HIDE DEF i
  <2>5. PathTypes'
    BY <1>1, <1>4, <1>5, <2>1, Zenon
       DEF PathTypes, diagonalCountRounded, diagonalCount, Rounded, Points, Unset
  <2>6. PointsSound'
    BY <1>1, <1>2, <1>5, Zenon DEF PointsSound, Diag, Unset, OnPath, KeyA, KeyB
  <2>7. i < diagonalCountRounded(colABlockSize, colBBlockSize)'
    BY <1>5, <1>6, Zenon DEF i, diagonalCountRounded, Rounded
  <2>8. Searching'
    BY <1>6, <2>1, <2>3, <2>4, <2>7, Zenon DEF Searching, IsWindow
  <2>9. ASSUME ~ misled PROVE PartitionComplete'
    <3>1. PartitionComplete
      BY <1>2, <1>6, <2>9, Zenon DEF Complete
    <3>2. \A j \in Nat : j < i => \A a \in Nat : Covers(j, a) => diagonals[j \div W] # Unset
      <4> SUFFICES ASSUME NEW j \in Nat, j < i, NEW a \in Nat, Covers(j, a)
                   PROVE  diagonals[j \div W] # Unset
        BY Zenon
      <4>1. j < search.i \/ j = search.i
        BY <1>3 DEF i
      <4> QED  BY <1>3, <3>1, <4>1, Zenon DEF PartitionComplete
    <3>3. \A a \in Nat : Covers(i, a) => a \in search'.aBeg .. search'.aEnd
      BY <2>1, Zenon DEF Covers
    <3>4. Unset' = Unset
      BY Zenon DEF Unset
    <3> QED  BY <1>1, <1>5, <2>4, <3>2, <3>3, <3>4, Zenon DEF PartitionComplete
  <2>10. Complete'
    BY <1>1, <1>6, <2>1, <2>9, Zenon DEF Complete
  <2> QED  BY <2>5, <2>6, <2>8, <2>10, Zenon DEF PathInv
<1>7. CASE /\ kernel = "partition"
           /\ ~ (search.i + 1 < diagonalCountRounded(colABlockSize, colBBlockSize))
  <2>1. BeginPath(0)
    BY <1>7, Zenon DEF NextThread
  <2>2. ~ misled => DiagonalsComplete
    BY <1>1, <1>7, PartitionEnds, Zenon
  <2> QED  BY <1>1, <1>2, <2>1, <2>2, BeginPathKeeps
<1>8. CASE kernel = "path"
  <2>1. BeginPath(search.i + 1) /\ search.i + 1 \in Nat
    BY <1>3, <1>8 DEF NextThread
  <2>2. ASSUME ~ misled PROVE DiagonalsComplete /\ \A d \in Nat : d < search.i + 1 => path[d] # Unset
    <3>1. DiagonalsComplete /\ PathComplete
      BY <1>2, <1>8, <2>2, Zenon DEF Complete
    <3>2. path[search.i] # Unset
      <4>1. search.i \in 0 .. diagonalCount(colABlockSize, colBBlockSize) - 1
        BY <1>2, <1>3, <1>4, <1>8, Counts DEF Searching
      <4>2. PICK a \in Nat : OnPath(a, search.i - a)
        BY <1>4, <4>1, PathPointExists, Zenon
      <4> QED  BY <1>3, <3>1, <4>2, Zenon DEF PathComplete
    <3>3. \A d \in Nat : d < search.i + 1 => d < search.i \/ d = search.i
      BY <1>3
    <3> QED  BY <3>1, <3>2, <3>3, Zenon DEF PathComplete
  <2> QED  BY <1>1, <1>2, <2>1, <2>2, BeginPathKeeps, Zenon
<1> QED  BY <1>1, <1>6, <1>7, <1>8, Zenon

\* The kernels are launched for two blocks.
LEMMA StartKeeps ==
    ASSUME NEW keysA \in Seq(Int), NEW keysB \in Seq(Int),
           keysA # <<>>, SortedKeys(keysA),
           keysB # <<>>, SortedKeys(keysB), UniqueKeys(keysB),
           StartPath(keysA, keysB)
    PROVE  PathInv'
<1> DEFINE nA == Len(keysA)
           nB == Len(keysB)
<1>1. /\ kernel' = "partition" /\ colABlock' = keysA /\ colBBlock' = keysB
      /\ search' = PartitionBounds(0, nA, nB)
      /\ diagonals' = [k \in 0 .. diagonalCountRounded(nA, nB) \div W |-> Unset]
      /\ path' = [d \in 0 .. diagonalCount(nA, nB) - 1 |-> Unset]
  BY Zenon DEF StartPath
<1>2. nA \in Nat \ {0} /\ nB \in Nat \ {0}
  OBVIOUS
<1>3. colABlockSize' = nA /\ colBBlockSize' = nB
  BY <1>1, Zenon DEF colABlockSize, colBBlockSize
<1>4. BlocksOK'
  BY <1>1, Zenon DEF BlocksOK, SortedKeys, UniqueKeys
<1> HIDE DEF nA, nB
<1>5. PathTypes'
  BY <1>1, <1>3, <1>4, Zenon DEF PathTypes, diagonalCountRounded, diagonalCount, Rounded, Points, Unset
<1>6. PointsSound'
  BY <1>1, Zenon DEF PointsSound, Unset
<1>7. IsWindow(search', 0, Diag(0 \div W))
  BY <1>1, <1>2, PartitionWindow, Zenon
<1>8. search'.i = 0 /\ Diagonal' = Diag(0 \div W)
  BY <1>1, <1>7, Zenon DEF IsWindow, Diagonal, Diag
<1>9. 0 < diagonalCountRounded(nA, nB)
  <2>1. PICK qA \in Nat : Rounded(nA) = qA * W /\ nA <= qA * W
    BY <1>2, RoundedIs, Zenon
  <2>2. PICK qB \in Nat : Rounded(nB) = qB * W /\ nB <= qB * W
    BY <1>2, RoundedIs, Zenon
  <2>3. qA * W \in Nat /\ qB * W \in Nat
    BY BlockDimAssumption
  <2> QED  BY <1>2, <2>1, <2>2, <2>3 DEF diagonalCountRounded
<1>10. 0 < diagonalCountRounded(colABlockSize, colBBlockSize)'
  BY <1>3, <1>9, Zenon DEF diagonalCountRounded, Rounded
<1>11. Searching'
  BY <1>1, <1>7, <1>8, <1>10, Zenon DEF Searching, IsWindow
<1>12. PartitionComplete'
  <2>1. \A a \in Nat : Covers(0, a)' => a \in search'.aBeg .. search'.aEnd
    BY <1>1, <1>3, Zenon DEF Covers, PartitionBounds, Rounded
  <2>2. \A j \in Nat : ~ (j < 0)
    OBVIOUS
  <2> QED  BY <1>8, <2>1, <2>2, Zenon DEF PartitionComplete
<1>13. Complete'
  BY <1>1, <1>12, Zenon DEF Complete
<1> QED  BY <1>5, <1>6, <1>11, <1>13, Zenon DEF PathInv

\* Before the first launch nothing is written.
LEMMA PathInvInit == PathInit => PathInv
<1> SUFFICES ASSUME PathInit PROVE PathInv
  BY Zenon
<1>1. kernel = "none" /\ diagonals = <<>> /\ path = <<>>
  BY Zenon DEF PathInit
<1>2. PointsSound
  BY <1>1 DEF PointsSound
<1> QED  BY <1>1, <1>2, Zenon DEF PathInv, PathTypes, Searching, Complete

\* Every step of the kernels keeps the invariant.
LEMMA PathInvStep == PathInv /\ [PathNext]_pathVars => PathInv'
<1> SUFFICES ASSUME PathInv, [PathNext]_pathVars PROVE PathInv'
  BY Zenon
<1>1. ASSUME NEW keysA \in Seq(Int), NEW keysB \in Seq(Int),
             keysA # <<>>, SortedKeys(keysA),
             keysB # <<>>, SortedKeys(keysB), UniqueKeys(keysB),
             StartPath(keysA, keysB)
      PROVE  PathInv'
  BY <1>1, StartKeeps, Zenon
<1>2. CASE NextThread
  BY <1>2, NextThreadKeeps, Zenon
<1>3. ASSUME NEW before \in Garbage, Probe(before)
      PROVE  PathInv'
  <2>1. PathTypes /\ PointsSound /\ Searching
    BY Zenon DEF PathInv
  <2>2. PathTypes' /\ PointsSound'
    BY <1>3, <2>1, TurnSound, Zenon
  <2>3. Searching'
    BY <1>3, <2>1, TurnKeepsWindow, Zenon
  <2>4. Complete'
    BY <1>3, TurnComplete, Zenon
  <2> QED  BY <2>2, <2>3, <2>4, Zenon DEF PathInv
<1>4. CASE UNCHANGED pathVars
  <2>1. UNCHANGED <<kernel, colABlock, colBBlock, search, diagonals, path, misled>>
    BY <1>4, Zenon DEF pathVars
  <2>2. /\ colABlockSize' = colABlockSize /\ colBBlockSize' = colBBlockSize
        /\ BlocksOK' <=> BlocksOK
        /\ \A a, b : OnPath(a, b)' <=> OnPath(a, b)
        /\ \A j, a : Covers(j, a)' <=> Covers(j, a)
    BY <2>1, SameBlocks, Zenon
  <2>3. PathTypes'
    BY <2>1, <2>2, Zenon DEF PathInv, PathTypes, diagonalCountRounded, diagonalCount, Rounded, Points, Unset
  <2>4. PointsSound'
    BY <2>1, <2>2, Zenon DEF PathInv, PointsSound, Diag, Unset, OnPath, KeyA, KeyB
  <2>5. Searching'
    BY <2>1, <2>2, Zenon DEF PathInv, Searching, Diagonal, Diag, diagonalCountRounded, diagonalCount, Rounded
  <2>6. /\ PartitionComplete => PartitionComplete'
        /\ DiagonalsComplete => DiagonalsComplete'
        /\ PathComplete => PathComplete'
        /\ AllFound => AllFound'
    BY <2>1, <2>2, Zenon DEF PartitionComplete, DiagonalsComplete, PathComplete, AllFound,
                      diagonalCount, Diag, Unset
  <2>7. Complete'
    BY <2>1, <2>6, Zenon DEF PathInv, Complete
  <2> QED  BY <2>3, <2>4, <2>5, <2>7, Zenon DEF PathInv
<1> QED  BY <1>1, <1>2, <1>3, <1>4, Zenon DEF PathNext, PathStep

\* For blocks of any size and any number of threads in a block, every point
\* that the kernels of MergeJoin::JoinUnique write is on the merge path, and if
\* no read before a block misleads a search, every pair of equal keys is found.
THEOREM MergePathIsRight == PathSpec => []MergePointsRight
<1>1. PathInit => PathInv
  BY PathInvInit, Zenon
<1>2. PathInv /\ [PathNext]_pathVars => PathInv'
  BY PathInvStep, Zenon
<1>3. PathInv => MergePointsRight
  BY PathInvRight, Zenon
<1> QED  BY <1>1, <1>2, <1>3, PTL DEF PathSpec

=============================================================================
