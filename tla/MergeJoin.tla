------------------------------ MODULE MergeJoin ------------------------------
(* The kernels of MergeJoin::JoinUnique that walk the merge path of two       *)
(* sorted blocks.  The merge matrix has a row for each key of A and a column  *)
(* for each key of B.  The merge path crosses each diagonal a + b = d in one  *)
(* point, which a thread finds by binary search: the first kernel on every    *)
(* W-th diagonal, the second one on all of them, in the window at the point   *)
(* that the first one has left.  Threads of a kernel write nothing that       *)
(* another one of it reads, so they take turns here.  A thread may read the   *)
(* element before the first one of a block, which gives any value.            *)
EXTENDS Integers, Sequences

CONSTANTS
    W,        \* blockDim.x
    Garbage   \* the values that a read before the block may give

ASSUME BlockDimAssumption == W \in Nat \ {0}

ASSUME GarbageAssumption == Garbage \subseteq Int

VARIABLES
    kernel,     \* "none", "partition", "path", or "eval" when both are done
    colABlock, colBBlock,   \* the sorted keys of the two blocks
    search,     \* the thread i that searches, and the bounds it has
    diagonals,  \* diagonalAIndices and diagonalBIndices
    path,       \* mergeAIndices and mergeBIndices
    misled      \* history: a read before a block has turned a search away

pathVars == <<kernel, colABlock, colBBlock, search, diagonals, path, misled>>

colABlockSize == Len(colABlock)
colBBlockSize == Len(colBBlock)
KeyA(a) == colABlock[a + 1]
KeyB(b) == colBBlock[b + 1]

Unset == <<-1, -1>>   \* no thread has written a point for these blocks

Rounded(size) == ((size + W - 1) \div W) * W
diagonalCountRounded(sizeA, sizeB) == Rounded(sizeA) + Rounded(sizeB) - 1
diagonalCount(sizeA, sizeB) == sizeA + sizeB - 1

\* Where thread i of kernel_partition_input searches: the rows and columns of
\* the diagonal (i / W + 1) * W - 1 that are congruent to it.
PartitionBounds(i, sizeA, sizeB) ==
    LET t == i % W
        u == W - t - 1
    IN  [i |-> i,
         aBeg |-> IF i < Rounded(sizeB) THEN t ELSE W + i - Rounded(sizeB),
         aEnd |-> IF i < Rounded(sizeA) THEN i ELSE Rounded(sizeA) - W + t,
         bBeg |-> IF i < Rounded(sizeA) THEN u
                  ELSE ((W + i - Rounded(sizeA)) \div W) * W + u,
         bEnd |-> IF i < Rounded(sizeB) THEN (i \div W) * W + u
                  ELSE Rounded(sizeB) - W + u]

\* Where thread i of kernel_find_merge_path searches: behind the point base of
\* the nearest diagonal of the first kernel.
PathBounds(i, base) ==
    LET far == IF (i + 1) \div W = 0 THEN i % W ELSE (i + 1) % W
    IN  [i |-> i, aBeg |-> base[1], aEnd |-> base[1] + far,
                  bBeg |-> base[2], bEnd |-> base[2] + far]

Base(i) == LET diagIdx == (i + 1) \div W
           IN  IF diagIdx = 0 THEN <<0, 0>> ELSE diagonals[diagIdx - 1]

PathInit ==
    /\ kernel = "none"
    /\ colABlock = <<>> /\ colBBlock = <<>>
    /\ search = [i |-> 0, aBeg |-> 0, aEnd |-> -1, bBeg |-> 0, bEnd |-> -1]
    /\ diagonals = <<>> /\ path = <<>>
    /\ misled = FALSE

\* The kernels are launched for two blocks that are not empty.
StartPath(keysA, keysB) ==
    /\ kernel \in {"none", "eval"}
    /\ kernel' = "partition"
    /\ colABlock' = keysA /\ colBBlock' = keysB
    /\ search' = PartitionBounds(0, Len(keysA), Len(keysB))
    /\ diagonals' = [k \in 0 .. diagonalCountRounded(Len(keysA), Len(keysB)) \div W |-> Unset]
    /\ path' = [d \in 0 .. diagonalCount(Len(keysA), Len(keysB)) - 1 |-> Unset]
    /\ misled' = FALSE

InLoop == search.aBeg <= search.aEnd /\ search.bBeg <= search.bEnd
aMid == search.aBeg + (search.aEnd - search.aBeg) \div 2
bMid == search.bEnd - (search.bEnd - search.bBeg) \div 2

Inside(a, b) == a < colABlockSize /\ b < colBBlockSize

\* Mutant: equal keys do not count as a merge point.
VerdictStrict(a, b, before) ==
    CASE a >= colABlockSize /\ b >= colBBlockSize -> "stop"
      [] a >= colABlockSize /\ b < colBBlockSize -> "up"
      [] a < colABlockSize /\ b >= colBBlockSize -> "down"
      [] Inside(a, b) /\ KeyA(a) > KeyB(b) /\ (a = 0 \/ b = colBBlockSize - 1) -> "here"
      [] Inside(a, b) /\ KeyA(a) <= KeyB(b) /\ (a = colABlockSize - 1 \/ b = 0) -> "here"
      [] OTHER -> IF KeyA(a) > (IF b = 0 THEN before ELSE KeyB(b - 1))
                  THEN IF (IF a = 0 THEN before ELSE KeyA(a - 1)) < KeyB(b)
                       THEN "here" ELSE "up"
                  ELSE "down"

\* What the body of the loop makes of the middle point: it is the merge point,
\* or the merge point lies up or down the diagonal.
Verdict(a, b, before) ==
    CASE a >= colABlockSize /\ b >= colBBlockSize -> "stop"
      [] a >= colABlockSize /\ b < colBBlockSize -> "up"
      [] a < colABlockSize /\ b >= colBBlockSize -> "down"
      [] Inside(a, b) /\ KeyA(a) > KeyB(b) /\ (a = 0 \/ b = colBBlockSize - 1) -> "here"
      [] Inside(a, b) /\ KeyA(a) <= KeyB(b) /\ (a = colABlockSize - 1 \/ b = 0) -> "here"
      [] OTHER -> IF KeyA(a) > (IF b = 0 THEN before ELSE KeyB(b - 1))
                  THEN IF (IF a = 0 THEN before ELSE KeyA(a - 1)) <= KeyB(b)
                       THEN "here" ELSE "up"
                  ELSE "down"

\* There is no row above the first one and no column left of it, so a search
\* that goes there was turned by what it read before the block.
Misleading(a, b, verdict) ==
    /\ Inside(a, b)
    /\ (a = 0 /\ verdict = "up") \/ (b = 0 /\ verdict = "down")

Narrow(verdict) ==
    search' = CASE verdict = "up" -> [search EXCEPT !.aEnd = aMid - 1, !.bBeg = bMid + 1]
                [] verdict = "down" -> [search EXCEPT !.aBeg = aMid + 1, !.bEnd = bMid - 1]
                [] OTHER -> [search EXCEPT !.aEnd = search.aBeg - 1]   \* break

\* One turn of the while loop of either kernel.
Probe(before) ==
    LET verdict == Verdict(aMid, bMid, before)
    IN  /\ kernel \in {"partition", "path"}
        /\ InLoop
        /\ Narrow(verdict)
        /\ diagonals' = IF kernel = "partition" /\ verdict = "here"
                        THEN [diagonals EXCEPT ![search.i \div W] = <<aMid, bMid>>]
                        ELSE diagonals
        /\ path' = IF kernel = "path" /\ verdict = "here"
                   THEN [path EXCEPT ![aMid + bMid] = <<aMid, bMid>>]
                   ELSE path
        /\ misled' = (misled \/ Misleading(aMid, bMid, verdict))
        /\ UNCHANGED <<kernel, colABlock, colBBlock>>

\* The i-th thread of kernel_find_merge_path begins, if there is one.  Nothing
\* is known of what follows if the point it starts from was never written.
BeginPath(i) ==
    IF i < diagonalCount(colABlockSize, colBBlockSize) /\ Base(i) # Unset
    THEN kernel' = "path" /\ search' = PathBounds(i, Base(i))
    ELSE kernel' = "eval" /\ UNCHANGED search

NextThread ==
    /\ kernel \in {"partition", "path"}
    /\ ~ InLoop
    /\ IF /\ kernel = "partition"
          /\ search.i + 1 < diagonalCountRounded(colABlockSize, colBBlockSize)
       THEN /\ search' = PartitionBounds(search.i + 1, colABlockSize, colBBlockSize)
            /\ UNCHANGED kernel
       ELSE BeginPath(IF kernel = "partition" THEN 0 ELSE search.i + 1)
    /\ UNCHANGED <<colABlock, colBBlock, diagonals, path, misled>>

PathStep == NextThread \/ \E before \in Garbage : Probe(before)

-----------------------------------------------------------------------------
(* The kernels by themselves, on any blocks that JoinUnique may give them. *)

SortedKeys(keys) == \A i, j \in DOMAIN keys : i < j => keys[i] <= keys[j]
UniqueKeys(keys) == \A i, j \in DOMAIN keys : i # j => keys[i] # keys[j]

PathNext ==
    \/ \E keysA, keysB \in Seq(Int) :
          /\ keysA # <<>> /\ SortedKeys(keysA)
          /\ keysB # <<>> /\ SortedKeys(keysB) /\ UniqueKeys(keysB)
          /\ StartPath(keysA, keysB)
    \/ PathStep

PathSpec == PathInit /\ [][PathNext]_pathVars

-----------------------------------------------------------------------------
(* Properties *)

\* <<a, b>> is where the merge path crosses its diagonal: the first row, from
\* above, whose key is greater than the key of the column before, or the last.
OnPath(a, b) ==
    /\ a \in 0 .. colABlockSize - 1 /\ b \in 0 .. colBBlockSize - 1
    /\ a = colABlockSize - 1 \/ b = 0 \/ KeyA(a) > KeyB(b - 1)
    /\ a = 0 \/ b = colBBlockSize - 1 \/ KeyA(a - 1) <= KeyB(b)

\* Whatever a read before a block gives, each point that kernel_partition_input
\* and kernel_find_merge_path write is where the merge path crosses the diagonal
\* that the point is written for; if no such read has misled a search, every
\* diagonal has its point, and then every pair of equal keys is among the
\* points, since B has no equal keys.
MergePointsRight ==
    /\ \A k \in DOMAIN diagonals : diagonals[k] # Unset =>
          /\ OnPath(diagonals[k][1], diagonals[k][2])
          /\ diagonals[k][1] + diagonals[k][2] = (k + 1) * W - 1
    /\ \A d \in DOMAIN path : path[d] # Unset =>
          /\ OnPath(path[d][1], path[d][2])
          /\ path[d][1] + path[d][2] = d
    /\ kernel = "eval" /\ ~ misled =>
          \A a \in 0 .. colABlockSize - 1, b \in 0 .. colBBlockSize - 1 :
             KeyA(a) = KeyB(b) => path[a + b] = <<a, b>>

=============================================================================
