------------------------------- MODULE HashJoin -------------------------------
(* The kernels of GPUJoin: a block of R is hashed, then the rows of a block   *)
(* of S look for their matches.  The rows of R arrive at the buckets in any   *)
(* order: a row takes the value of the counter for its hash and increments    *)
(* it, and the rows whose counters come to the same bucket overwrite each     *)
(* other.  What a kernel reads but nothing has written is Junk.               *)
EXTENDS Integers, Sequences, FiniteSets

CONSTANT SubSize   \* HASH_TABLE_SUB_SIZE, which is also the size of a block of threads

ASSUME SubSizeAssumption == SubSize \in Nat \ {0}

Junk == -1

hash(key) == key % SubSize

\* Row i, from 0, of a block; a block of a column that is not nullable has no mask.
At(block, i) == block.data[i + 1]
NullBit(block, i) == block.mask # <<>> /\ block.mask[i + 1]
RowsOf(block) == 0 .. Len(block.data) - 1

\* Mutant: NULL rows of R are entered into the table.
HashedRowsWithNulls(block) == RowsOf(block)

HashedRows(block) == {i \in RowsOf(block) : ~ NullBit(block, i)}

\* The histogram counts by row, not by hash: one for every row that is hashed.
HashTableHisto(block) == HashedRows(block)

\* HashTablePrefixSum[j - 1]: where the bucket of slot j begins.
BucketStart(block, j) == Cardinality({i \in HashTableHisto(block) : i < j})

\* The slot whose counter row i increments, in its part of the table.
SlotOf(block, i) == (i \div SubSize) * SubSize + hash(At(block, i))

\* The bucket that the n-th row to arrive is written to.
BucketOf(block, arrivals, n) ==
    LET slot == SlotOf(block, arrivals[n])
    IN  BucketStart(block, slot)
          + Cardinality({m \in 1 .. n - 1 : SlotOf(block, arrivals[m]) = slot})

\* All orders in which the hashed rows may arrive.
Arrivals(block) ==
    {f \in [1 .. Cardinality(HashedRows(block)) -> HashedRows(block)] :
        \A m, n \in DOMAIN f : f[m] = f[n] => m = n}

\* A counter that no thread of the table initialises, or a bucket behind it.
HashesOutside(block, arrivals, hashTableSize) ==
    \E n \in DOMAIN arrivals :
        \/ SlotOf(block, arrivals[n]) >= hashTableSize
        \/ BucketOf(block, arrivals, n) >= hashTableSize

HashTableHashBuckets(block, arrivals, hashTableSize) ==
    [k \in 0 .. hashTableSize - 1 |->
        LET writers == {n \in DOMAIN arrivals : BucketOf(block, arrivals, n) = k}
        IN  IF writers = {} THEN Junk
            ELSE arrivals[CHOOSE n \in writers : \A m \in writers : m <= n]]

\* The slots that row i of S looks into.
Probed(blockR, blockS, i, hashTableSize) ==
    {j \in HashTableHisto(blockR) \cap 0 .. hashTableSize - 1 :
        j % SubSize = hash(At(blockS, i))}

\* Neither row is NULL; but the bit of R is read at the index of the row of S.
Compared(blockR, blockS, i) == ~ NullBit(blockR, i) /\ ~ NullBit(blockS, i)

Bucket(blockR, buckets, j) == buckets[BucketStart(blockR, j)]

\* A probe reads a bucket that was not written, or behind the mask of R.
ProbesJunk(blockR, blockS, buckets, hashTableSize) ==
    \E i \in RowsOf(blockS) : Probed(blockR, blockS, i, hashTableSize) # {} /\
        \/ blockR.mask # <<>> /\ i >= Len(blockR.mask)
        \/ /\ Compared(blockR, blockS, i)
           /\ \E j \in Probed(blockR, blockS, i, hashTableSize) :
                 Bucket(blockR, buckets, j) = Junk

\* The matches <<row of R, row of S>> in the order of the result buffer.
JoinBlock(blockR, blockS, buckets, hashTableSize) ==
    LET probe(n) == <<(n - 1) \div hashTableSize, (n - 1) % hashTableSize>>
        probes == [n \in 1 .. Len(blockS.data) * hashTableSize |-> probe(n)]
        matches(p) == /\ p[2] \in Probed(blockR, blockS, p[1], hashTableSize)
                      /\ Compared(blockR, blockS, p[1])
                      /\ At(blockR, Bucket(blockR, buckets, p[2])) = At(blockS, p[1])
        found == SelectSeq(probes, matches)
    IN  [n \in DOMAIN found |-> <<Bucket(blockR, buckets, found[n][2]), found[n][1]>>]

\* Every hash of a part of the table occurs, up to the number of its rows.
RegularBlock(block) ==
    /\ HashedRows(block) = RowsOf(block)
    /\ {SlotOf(block, i) : i \in RowsOf(block)} = RowsOf(block)

=============================================================================
