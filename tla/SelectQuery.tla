----------------------------- MODULE SelectQuery -----------------------------
(* A SELECT without GROUP BY from its join to its answer.  The join           *)
(* dispatcher makes the join indices; each device's dispatcher then takes     *)
(* its blocks in turn (device d the blocks d, d + devices, ...) and filters,  *)
(* aggregates, sorts or returns them; with ORDER BY the dispatcher of the     *)
(* last block merges the sorted blocks; GpuSqlCustomParser merges the         *)
(* responses of the devices and trims them.  Blocks, devices and indices of   *)
(* rows count from 0 as in the code.  Where the code uses what was never      *)
(* written, the outcome is any value, or the phase "undefined".               *)
EXTENDS ResultPayload, HashJoin, MergeJoin, OrderByMerge

CONSTANTS
    MaxInt,          \* the greatest int64_t
    RowsPerThread,   \* of the threads that reorder a null mask
    WordBytes,       \* sizeof(nullmask_t)
    Inputs           \* the tables and queries to run, see InputOK

ASSUME QueryAssumption ==
    MaxInt \in Nat /\ RowsPerThread \in Nat \ {0} /\ WordBytes \in Nat \ {0}

VARIABLES
    input,         \* tables, devices and query; never changes
    phase,         \* "join", "execute", "merge", "done" or "undefined"
    joinAt,        \* the pairs of blocks that have been joined
    hashBuckets,   \* HashTableHashBuckets of the current block of R
    joinIndices,   \* blocks of <<index in the left table, index in the right one>>
    blockIndex,    \* of each device
    thread,        \* "running", "loaded", "waiting" for the merge, or "ended"
    allocatedPointers, \* the columns that a device has loaded
    orderByDone,   \* orderByDoneCounter_
    orderByBlocks, \* the sorted blocks of each device
    responses,     \* of each device, by item of the query
    mergedResults, \* the number of responses that are merged
    response       \* by item of the query

joinVars == <<joinAt, hashBuckets, joinIndices>>
execVars == <<blockIndex, thread, allocatedPointers, orderByDone, orderByBlocks, responses>>
resultVars == <<mergedResults, response>>
vars == <<input, phase, joinVars, execVars, resultVars, pathVars, mergeVars>>

query == input.query
Devices == 0 .. input.devices - 1
Column(c) == input.columns[c]
Items == DOMAIN query.items

\* A query has items [op, col], where op is "" or an aggregation, at least one;
\* where is "" or a column whose rows with 1 are selected; order lists columns
\* with directions; join is <<>> or the left and the right column.
InputOK(in) ==
    /\ in.devices \in Nat \ {0} /\ in.blockSize \in Nat \ {0}
    /\ in.query.offset \in 0 .. MaxInt /\ in.query.limit \in 0 .. MaxInt
    /\ \A k \in DOMAIN in.query.items : in.query.items[k].col \in DOMAIN in.columns

ASSUME InputsAssumption == \A in \in Inputs : InputOK(in)

UsingJoin == query.join # <<>>
UsingOrderBy == query.order # <<>>
UsingAggregation == \E k \in Items : query.items[k].op # ""

Init ==
    /\ input \in Inputs
    /\ phase = IF UsingJoin THEN "join" ELSE "execute"
    /\ joinAt = 0 /\ hashBuckets = <<>> /\ joinIndices = <<>>
    /\ blockIndex = [d \in Devices |-> d]
    /\ thread = [d \in Devices |-> "running"]
    /\ allocatedPointers = [d \in Devices |-> <<>>]
    /\ orderByDone = 0
    /\ orderByBlocks = [d \in Devices |-> <<>>]
    /\ responses = [d \in Devices |-> [k \in Items |-> NoPayload]]
    /\ mergedResults = 0
    /\ response = [k \in Items |-> NoPayload]
    /\ PathInit
    /\ MergeInit

Undefined ==
    /\ phase' = "undefined"
    /\ UNCHANGED <<input, joinVars, execVars, resultVars, pathVars, mergeVars>>

-----------------------------------------------------------------------------
(* JoinCol *)

Left == Column(query.join[1])
Right == Column(query.join[2])

UsesMergeJoin == Left.unique \/ Right.unique

\* The arguments of JoinUnique and JoinTableRonS.  The indices of the first one
\* become those of the left table, also where the columns are exchanged.
ColA == IF Left.unique /\ ~ Right.unique THEN Right ELSE Left
ColB == IF Left.unique /\ ~ Right.unique THEN Left ELSE Right

\* The pairs of blocks in the order of the nested loops.
PairCount == Len(ColA.blocks) * Len(ColB.blocks)
PairA(n) == n \div Len(ColB.blocks)
PairB(n) == n % Len(ColB.blocks)
BlockA == ColA.blocks[PairA(joinAt) + 1]
BlockB == ColB.blocks[PairB(joinAt) + 1]

\* cub::DeviceRadixSort::SortPairs: the indices of the rows by key, stable.
SortedRows(keys) ==
    LET before(i, j) == keys[i + 1] < keys[j + 1] \/ (keys[i + 1] = keys[j + 1] /\ i < j)
    IN  SortSeq([n \in DOMAIN keys |-> n - 1], before)

InOrder(keys, rows) == [n \in DOMAIN rows |-> keys[rows[n] + 1]]

JoinStartPair ==
    /\ phase = "join" /\ UsesMergeJoin /\ kernel = "none"
    /\ joinAt < PairCount
    /\ IF BlockA.data = <<>> \/ BlockB.data = <<>>
       THEN joinAt' = joinAt + 1 /\ UNCHANGED pathVars
       ELSE /\ StartPath(InOrder(BlockA.data, SortedRows(BlockA.data)),
                         InOrder(BlockB.data, SortedRows(BlockB.data)))
            /\ UNCHANGED joinAt
    /\ UNCHANGED <<input, phase, hashBuckets, joinIndices, execVars, resultVars, mergeVars>>

JoinWalkPath ==
    /\ phase = "join"
    /\ PathStep
    /\ UNCHANGED <<input, phase, joinVars, execVars, resultVars, mergeVars>>

\* The flags that the rows of A have on the GPU.  A flag is read at the index in
\* the column, not in the block: behind the mask it is any value.
NullFlags ==
    LET index(i) == PairA(joinAt) * ColA.blockSize + i
        choices(i) == IF BlockA.mask = <<>> THEN {FALSE}
                      ELSE IF index(i) < Len(BlockA.mask) THEN {BlockA.mask[index(i) + 1]}
                      ELSE BOOLEAN
    IN  {f \in [RowsOf(BlockA) -> BOOLEAN] : \A i \in RowsOf(BlockA) : f[i] \in choices(i)}

\* kernel_eval_predicate_merge_path and kernel_compress_join_indices.
JoinedPairs(flags) ==
    LET rowsA == SortedRows(BlockA.data)
        rowsB == SortedRows(BlockB.data)
        joins(p) == KeyA(p[1]) = KeyB(p[2]) /\ ~ flags[rowsA[p[1] + 1]]
        found == SelectSeq([d \in 1 .. Cardinality(DOMAIN path) |-> path[d - 1]], joins)
    IN  [n \in DOMAIN found |->
           <<PairA(joinAt) * ColA.blockSize + rowsA[found[n][1] + 1],
             PairB(joinAt) * ColB.blockSize + rowsB[found[n][2] + 1]>>]

JoinEvalPair ==
    /\ phase = "join" /\ kernel = "eval"
    /\ IF \E d \in DOMAIN path : path[d] = Unset
       THEN Undefined
       ELSE /\ \E flags \in NullFlags : joinIndices' = Append(joinIndices, JoinedPairs(flags))
            /\ joinAt' = joinAt + 1
            /\ kernel' = "none"
            /\ UNCHANGED <<input, phase, hashBuckets, execVars, resultVars, mergeVars,
                           colABlock, colBBlock, search, diagonals, path, misled>>

JoinHashBlock ==
    /\ phase = "join" /\ ~ UsesMergeJoin
    /\ joinAt < PairCount /\ hashBuckets = <<>>
    /\ \E arrivals \in Arrivals(BlockA) :
          IF \/ Len(BlockA.data) > input.blockSize
             \/ HashesOutside(BlockA, arrivals, input.blockSize)
          THEN Undefined
          ELSE /\ hashBuckets' = HashTableHashBuckets(BlockA, arrivals, input.blockSize)
               /\ UNCHANGED <<input, phase, joinAt, joinIndices, execVars, resultVars,
                              pathVars, mergeVars>>

\* A sequence in blocks of n.
Cut(seq, n) == [k \in 1 .. (Len(seq) + n - 1) \div n |->
                   SubSeq(seq, (k - 1) * n + 1, IF k * n < Len(seq) THEN k * n ELSE Len(seq))]

JoinProbeBlock ==
    /\ phase = "join" /\ hashBuckets # <<>>
    /\ IF \/ Len(BlockB.data) > input.blockSize
          \/ ProbesJunk(BlockA, BlockB, hashBuckets, input.blockSize)
       THEN Undefined
       ELSE LET found == JoinBlock(BlockA, BlockB, hashBuckets, input.blockSize)
                pairs == [n \in DOMAIN found |->
                             <<PairA(joinAt) * input.blockSize + found[n][1],
                               PairB(joinAt) * input.blockSize + found[n][2]>>]
            IN  /\ joinIndices' = Cut(FlattenSeq(joinIndices) \o pairs, input.blockSize)
                /\ joinAt' = joinAt + 1
                /\ hashBuckets' = IF PairB(joinAt + 1) = 0 THEN <<>> ELSE hashBuckets
                /\ UNCHANGED <<input, phase, execVars, resultVars, pathVars, mergeVars>>

JoinDone ==
    /\ phase = "join"
    /\ joinAt = PairCount
    /\ phase' = "execute"
    /\ UNCHANGED <<input, joinVars, execVars, resultVars, pathVars, mergeVars>>

-----------------------------------------------------------------------------
(* GetLoadSize and LoadCol *)

Min2(x, y) == IF x < y THEN x ELSE y

FirstColumn == Column(query.items[1].col)

GetBlockCount == IF UsingJoin THEN Len(joinIndices) ELSE Len(FirstColumn.blocks)

GetBlockSize(b) == IF UsingJoin THEN Len(joinIndices[b + 1])
                   ELSE Len(FirstColumn.blocks[b + 1].data)

\* The rows of the blocks before b.
RowsBefore(b) ==
    LET sum[k \in 0 .. b] == IF k = 0 THEN 0 ELSE sum[k - 1] + GetBlockSize(k - 1)
    IN  sum[b]

\* The sum of two int64_t.
Wrap(x) == IF x > MaxInt THEN x - 2 * (MaxInt + 1) ELSE x

\* The block that row number x is in, the last one if there is none, and -1
\* for a negative number, for which the loop is not entered.
BlockOfRow(x) ==
    IF x < 0 THEN -1
    ELSE First({b \in 0 .. GetBlockCount - 1 : x < RowsBefore(b + 1)} \cup {GetBlockCount - 1})

\* LIMIT and OFFSET are left to the end unless rows are just returned.
LoadsWholeBlocks == query.where # "" \/ UsingOrderBy \/ UsingAggregation \/ UsingJoin

GetLoadSize(b) ==
    LET offsetBlockIdx == BlockOfRow(query.offset)
        end == Wrap(query.offset + query.limit)
        offsetLimitBlockIdx == BlockOfRow(end)
        current == GetBlockSize(b)
        rest == Min2(RowsBefore(offsetBlockIdx + 1) - query.offset, current)
        loadOffset == IF b = offsetBlockIdx
                      THEN Min2(RowsBefore(offsetBlockIdx + 1) - rest, current) ELSE 0
        loadSize == CASE b = offsetLimitBlockIdx ->
                            Min2(end - RowsBefore(offsetLimitBlockIdx), current) - loadOffset
                      [] b # offsetLimitBlockIdx /\ b = offsetBlockIdx -> rest
                      [] offsetBlockIdx < b /\ b < offsetLimitBlockIdx -> current
                      [] OTHER -> 0
    IN  IF LoadsWholeBlocks THEN [offset |-> 0, size |-> current]
        ELSE [offset |-> loadOffset, size |-> loadSize]

UsedColumns == {query.items[k].col : k \in Items}
                 \cup {query.order[n].col : n \in DOMAIN query.order}
                 \cup (IF query.where = "" THEN {} ELSE {query.where})

\* The index of a joined row in the table of column c.
JoinedIndex(c, pair) == IF Column(c).table = Left.table THEN pair[1] ELSE pair[2]
JoinedBlock(c, pair) == JoinedIndex(c, pair) \div input.blockSize
JoinedRow(c, pair) == JoinedIndex(c, pair) % input.blockSize

LoadsOutside(b) ==
    IF UsingJoin
    THEN \E c \in UsedColumns, n \in DOMAIN joinIndices[b + 1] :
            LET pair == joinIndices[b + 1][n]
            IN  \/ JoinedBlock(c, pair) >= Len(Column(c).blocks)
                \/ JoinedRow(c, pair) >= Len(Column(c).blocks[JoinedBlock(c, pair) + 1].data)
    ELSE GetLoadSize(b).offset + GetLoadSize(b).size > GetBlockSize(b)

LoadBlock(c, b) ==
    LET block == Column(c).blocks[b + 1]
        window == GetLoadSize(b)
        copied == Min2(GetNullBitMaskSize(window.size + window.offset),
                       GetNullBitMaskSize(Len(block.data)))
    IN  [data |-> SubSeq(block.data, window.offset + 1, window.offset + window.size),
         mask |-> IF block.mask = <<>> THEN <<>>
                  ELSE Words(ShiftNullMaskLeft(Words(block.mask, copied), window.offset),
                             GetNullBitMaskSize(window.size))]

\* The bits that reorderNullMaskByJIPushToGPU sets for the rows that are NULL.
ReorderedBits(c, b) ==
    LET pairs == joinIndices[b + 1]
        isNull(n) == NullBit(Column(c).blocks[JoinedBlock(c, pairs[n]) + 1],
                             JoinedRow(c, pairs[n]))
    IN  {((n - 1) \div WordBits) * WordBits + ((n - 1) % RowsPerThread) * WordBytes :
            n \in {m \in DOMAIN pairs : isNull(m)}}

\* Threads that or into the same word without a lock may lose each other's bits.
LosableBits(c, b) ==
    {bit \in ReorderedBits(c, b) :
        Len(joinIndices[b + 1]) - (bit \div WordBits) * WordBits > RowsPerThread}

LoadJoinedBlock(c, b, lost) ==
    LET pairs == joinIndices[b + 1]
    IN  [data |-> [n \in DOMAIN pairs |->
                      At(Column(c).blocks[JoinedBlock(c, pairs[n]) + 1], JoinedRow(c, pairs[n]))],
         mask |-> IF ~ Column(c).nullable THEN <<>>
                  ELSE [i \in 1 .. GetNullBitMaskSize(Len(pairs)) * WordBits |->
                           i - 1 \in ReorderedBits(c, b) \ lost]]

\* What the columns of the query may look like on the GPU.
LoadedBlocks(b) ==
    IF UsingJoin
    THEN {[c \in UsedColumns |-> LoadJoinedBlock(c, b, lost[c])] : lost \in
             {f \in [UsedColumns -> SUBSET UNION {LosableBits(c, b) : c \in UsedColumns}] :
                 \A c \in UsedColumns : f[c] \subseteq LosableBits(c, b)}}
    ELSE {[c \in UsedColumns |-> LoadBlock(c, b)]}

-----------------------------------------------------------------------------
(* The instructions of a dispatcher for a block *)

PadMask(bits) == [i \in 1 .. GetNullBitMaskSize(Len(bits)) * WordBits |->
                     i <= Len(bits) /\ bits[i]]

\* filter_: the rows of the block that the WHERE clause selects.
Filter(d) == IF query.where = "" THEN <<>>
             ELSE [i \in DOMAIN allocatedPointers[d][query.where].data |->
                      allocatedPointers[d][query.where].data[i] = 1]

\* reconstructCol and reconstructColKeep: without a filter all words are kept.
Reconstruct(block, filter) ==
    LET rows == SelectSeq([i \in DOMAIN filter |-> i], LAMBDA i : filter[i])
    IN  IF filter = <<>> THEN block
        ELSE [data |-> [n \in DOMAIN rows |-> block.data[rows[n]]],
              mask |-> IF block.mask = <<>> THEN <<>>
                       ELSE PadMask([n \in DOMAIN rows |-> block.mask[rows[n]]])]

\* The size that the mask is merged by; it is not set for a DateTime payload.
PayloadSizes(payload) ==
    IF query.date THEN {0, Len(payload.data), MaxInt} ELSE {Len(payload.data)}

\* RetCol for a block; MergePayloadToSelfResponse.
ReturnColumns(d, payloads, sizes) ==
    responses' = [responses EXCEPT ![d] = [k \in Items |->
                     MergeInto(@[k], query.items[k].op, payloads[k], sizes[k])]]

Sizes(payloads) ==
    {f \in [Items -> UNION {PayloadSizes(payloads[k]) : k \in Items}] :
        \A k \in Items : f[k] \in PayloadSizes(payloads[k])}

isLastBlockOfDevice(d) == blockIndex[d] >= GetBlockCount - input.devices
isOverallLastBlock(d) == blockIndex[d] = GetBlockCount - 1

\* On to the next block, or to Done; the registers are freed.
Jmp(d) ==
    /\ allocatedPointers' = [allocatedPointers EXCEPT ![d] = <<>>]
    /\ IF isLastBlockOfDevice(d)
       THEN thread' = [thread EXCEPT ![d] = "ended"] /\ UNCHANGED blockIndex
       ELSE /\ blockIndex' = [blockIndex EXCEPT ![d] = @ + input.devices]
            /\ thread' = [thread EXCEPT ![d] = "running"]

Executing(d) == phase = "execute" /\ thread[d] = "running"
Loaded(d) == phase = "execute" /\ thread[d] = "loaded"

OutOfBlocks(d) ==
    /\ Executing(d)
    /\ blockIndex[d] >= GetBlockCount
    /\ thread' = [thread EXCEPT ![d] = "ended"]
    /\ UNCHANGED <<input, phase, joinVars, blockIndex, allocatedPointers, orderByDone,
                   orderByBlocks, responses, resultVars, pathVars, mergeVars>>

\* LOAD_SKIPPED goes straight to Jmp, past OrderByReconstructRetAllBlocks.
SkipBlock(d) ==
    /\ Executing(d)
    /\ blockIndex[d] < GetBlockCount
    /\ GetLoadSize(blockIndex[d]).size <= 0
    /\ Jmp(d)
    /\ UNCHANGED <<input, phase, joinVars, orderByDone, orderByBlocks, responses,
                   resultVars, pathVars, mergeVars>>

\* LoadCol for all columns of the query.
LoadCol(d) ==
    /\ Executing(d)
    /\ blockIndex[d] < GetBlockCount
    /\ GetLoadSize(blockIndex[d]).size > 0
    /\ IF LoadsOutside(blockIndex[d])
       THEN Undefined
       ELSE /\ \E loaded \in LoadedBlocks(blockIndex[d]) :
                  allocatedPointers' = [allocatedPointers EXCEPT ![d] = loaded]
            /\ thread' = [thread EXCEPT ![d] = "loaded"]
            /\ UNCHANGED <<input, phase, joinVars, blockIndex, orderByDone, orderByBlocks,
                           responses, resultVars, pathVars, mergeVars>>

ReturnBlock(d) ==
    /\ Loaded(d)
    /\ ~ UsingAggregation /\ ~ UsingOrderBy
    /\ LET payloads == [k \in Items |->
               Reconstruct(allocatedPointers[d][query.items[k].col], Filter(d))]
       IN  \E sizes \in Sizes(payloads) : ReturnColumns(d, payloads, sizes)
    /\ Jmp(d)
    /\ UNCHANGED <<input, phase, joinVars, orderByDone, orderByBlocks, resultVars,
                   pathVars, mergeVars>>

\* Mutant: the filter is not applied before the aggregation.
AggregationInputUnfiltered(d, k) == allocatedPointers[d][query.items[k].col]

\* The register that aggregation k reads.  The first one applies the filter and
\* resets it; unless it is COUNT it replaces the register of its column.
AggregationInput(d, k) ==
    LET filtered == \/ k = 1
                    \/ query.items[1].op # "COUNT" /\ query.items[1].col = query.items[k].col
    IN  Reconstruct(allocatedPointers[d][query.items[k].col], IF filtered THEN Filter(d) ELSE <<>>)

SumOf(values) == FoldLeft(LAMBDA sum, x : sum + x, 0, values)

\* AGG::agg; NULL rows are aggregated like others.  AVG is rounded here, and 0
\* where it is not a number.
GPUAggregation(op, values) ==
    CASE op = "MIN" -> IF values = <<>> THEN Highest ELSE Min(ToSet(values))
      [] op = "MAX" -> IF values = <<>> THEN Lowest ELSE Max(ToSet(values))
      [] op = "SUM" -> SumOf(values)
      [] op = "AVG" -> IF values = <<>> THEN 0 ELSE SumOf(values) \div Len(values)
      [] op = "COUNT" -> Len(values)

AggregateBlock(d) ==
    /\ Loaded(d)
    /\ UsingAggregation
    /\ LET payloads == [k \in Items |->
               [data |-> <<GPUAggregation(query.items[k].op, AggregationInput(d, k).data)>>,
                mask |-> <<>>]]
       IN  ReturnColumns(d, payloads, [k \in Items |-> 1])
    /\ Jmp(d)
    /\ UNCHANGED <<input, phase, joinVars, orderByDone, orderByBlocks, resultVars,
                   pathVars, mergeVars>>

-----------------------------------------------------------------------------
(* ORDER BY *)

Directions == [n \in DOMAIN query.order |-> query.order[n].dir]

\* Rows with keys x and y: does x come before y?
RowBefore(x, y) ==
    \E n \in DOMAIN query.order :
        /\ \A m \in 1 .. n - 1 : x[m] = y[m]
        /\ IF query.order[n].dir = "ASC" THEN x[n] < y[n] ELSE x[n] > y[n]

\* OrderByCol for the columns from the last to the first: the rows of the block
\* in a stable order, in which NULL counts as the smallest value.
orderByIndices(d) ==
    LET key(c, i) == IF allocatedPointers[d][c].mask # <<>> /\ allocatedPointers[d][c].mask[i]
                     THEN Lowest ELSE allocatedPointers[d][c].data[i]
        keys(i) == [n \in DOMAIN query.order |-> key(query.order[n].col, i)]
        before(i, j) == RowBefore(keys(i), keys(j)) \/ (~ RowBefore(keys(j), keys(i)) /\ i < j)
    IN  SortSeq([i \in DOMAIN allocatedPointers[d][query.order[1].col].data |-> i], before)

\* OrderByReconstructCol uses a new mask for each column it reorders; it stays
\* as it was allocated when the column is not nullable.
Roles == [use : {"order"}, col : {query.order[n].col : n \in DOMAIN query.order}]
           \cup [use : {"ret"}, col : {query.items[k].col : k \in Items}]
UnwrittenMasks(d) ==
    [{r \in Roles : ~ Column(r.col).nullable} ->
        SUBSET DOMAIN allocatedPointers[d][query.order[1].col].data]

\* A sorted and filtered block as the merge reads it: keys, and cells with their
\* null bits.  In the columns of both NULL is replaced by the smallest value.
SortedBlock(d, unwritten) ==
    LET order == orderByIndices(d)
        filter == Filter(d)
        places == SelectSeq([p \in DOMAIN order |-> p],
                            LAMBDA p : filter = <<>> \/ filter[order[p]])
        bit(use, c, p) == IF Column(c).nullable THEN allocatedPointers[d][c].mask[order[p]]
                          ELSE p \in unwritten[[use |-> use, col |-> c]]
        value(use, c, p) == IF bit(use, c, p) THEN Lowest
                            ELSE allocatedPointers[d][c].data[order[p]]
    IN  [i \in DOMAIN places |->
           [keys |-> [n \in DOMAIN query.order |-> value("order", query.order[n].col, places[i])],
            cells |-> [k \in Items |-> <<value("ret", query.items[k].col, places[i]),
                                         bit("ret", query.items[k].col, places[i])>>]]]

SortBlock(d) ==
    /\ Loaded(d)
    /\ UsingOrderBy
    /\ \E unwritten \in UnwrittenMasks(d) :
          orderByBlocks' = [orderByBlocks EXCEPT ![d] = Append(@, SortedBlock(d, unwritten))]
    /\ IF isOverallLastBlock(d)
       THEN /\ thread' = [thread EXCEPT ![d] = "waiting"]
            /\ UNCHANGED <<blockIndex, allocatedPointers, orderByDone>>
       ELSE /\ Jmp(d)
            /\ orderByDone' = IF isLastBlockOfDevice(d) THEN orderByDone + 1 ELSE orderByDone
    /\ UNCHANGED <<input, phase, joinVars, responses, resultVars, pathVars, mergeVars>>

\* Mutant: the limit does not consider that there may be fewer blocks than devices.
deviceCountLimitOfDevices == input.devices - 1

deviceCountLimit == Min2(input.devices - 1, GetBlockCount - 1)

MergeBlocks(d) ==
    /\ phase = "execute" /\ thread[d] = "waiting"
    /\ orderByDone = deviceCountLimit
    /\ StartMerge(FlattenSeq([n \in 1 .. input.devices |-> orderByBlocks[n - 1]]), Directions)
    /\ UNCHANGED <<input, phase, joinVars, execVars, resultVars, pathVars>>

MergeTurn ==
    /\ phase = "execute"
    /\ MergeRow \/ EndMerge
    /\ UNCHANGED <<input, phase, joinVars, execVars, resultVars, pathVars>>

ReturnMerged(d) ==
    /\ phase = "execute" /\ thread[d] = "waiting" /\ mergeState = "merged"
    /\ LET payloads == [k \in Items |->
               [data |-> [n \in DOMAIN merged |-> merged[n].cells[k][1]],
                mask |-> PadMask([n \in DOMAIN merged |-> merged[n].cells[k][2]])]]
       IN  \E sizes \in Sizes(payloads) : ReturnColumns(d, payloads, sizes)
    /\ Jmp(d)
    /\ UNCHANGED <<input, phase, joinVars, orderByDone, orderByBlocks, resultVars,
                   pathVars, mergeVars>>

-----------------------------------------------------------------------------
(* MergeDispatcherResults *)

ThreadsJoined ==
    /\ phase = "execute"
    /\ \A d \in Devices : thread[d] = "ended"
    /\ phase' = "merge"
    /\ UNCHANGED <<input, joinVars, execVars, resultVars, pathVars, mergeVars>>

MergeDispatcherResult ==
    /\ phase = "merge"
    /\ mergedResults < input.devices
    /\ \E sizes \in Sizes(responses[mergedResults]) :
          response' = [k \in Items |->
              MergeInto(response[k], query.items[k].op, responses[mergedResults][k], sizes[k])]
    /\ mergedResults' = mergedResults + 1
    /\ UNCHANGED <<input, phase, joinVars, execVars, pathVars, mergeVars>>

TrimResponseMessage ==
    /\ phase = "merge"
    /\ mergedResults = input.devices
    /\ phase' = "done"
    /\ response' = IF LoadsWholeBlocks
                   THEN [k \in Items |-> TrimPayload(response[k], query.limit, query.offset)]
                   ELSE response
    /\ UNCHANGED <<input, joinVars, execVars, mergedResults, pathVars, mergeVars>>

Step ==
    \/ JoinStartPair \/ JoinWalkPath \/ JoinEvalPair
    \/ JoinHashBlock \/ JoinProbeBlock \/ JoinDone
    \/ \E d \in Devices :
          \/ OutOfBlocks(d) \/ SkipBlock(d) \/ LoadCol(d)
          \/ ReturnBlock(d) \/ AggregateBlock(d) \/ SortBlock(d)
          \/ MergeBlocks(d) \/ ReturnMerged(d)
    \/ MergeTurn
    \/ ThreadsJoined \/ MergeDispatcherResult \/ TrimResponseMessage

Next == Step

Spec == Init /\ [][Next]_vars /\ WF_vars(Step)

-----------------------------------------------------------------------------
(* What the answer should be *)

Null == Lowest - 1   \* a NULL cell; below all values, as ORDER BY places it

\* The blocks in the order in which the devices return them, and their rows.
BlocksByDevice ==
    FlattenSeq([n \in 1 .. input.devices |->
        [m \in 1 .. (GetBlockCount - n + input.devices) \div input.devices |->
            n - 1 + (m - 1) * input.devices]])

RowsOfBlock(b) == [i \in 1 .. GetBlockSize(b) |-> <<b, i - 1>>]
RowsByDevice == LET blocks == BlocksByDevice
                IN  FlattenSeq([m \in DOMAIN blocks |-> RowsOfBlock(blocks[m])])
RowCount == RowsBefore(GetBlockCount)

\* The size by which the join has numbered the rows of a column.
NumberedBy(column) == IF UsesMergeJoin THEN column.blockSize ELSE input.blockSize

\* The value of column c in row r = <<block, index>> of what is selected from.
Cell(c, r) ==
    LET index == JoinedIndex(c, joinIndices[r[1] + 1][r[2] + 1])
        size == NumberedBy(Column(c))
        block == Column(c).blocks[(IF UsingJoin THEN index \div size ELSE r[1]) + 1]
        row == IF UsingJoin THEN index % size ELSE r[2]
    IN  IF NullBit(block, row) THEN Null ELSE At(block, row)

IsSelected(r) == query.where = "" \/ Cell(query.where, r) = 1
Keys(r) == [n \in DOMAIN query.order |-> Cell(query.order[n].col, r)]

\* The rows that the query asks for, in order; rows that the order leaves open
\* stay as the devices return them.
Answer ==
    LET selected == SelectSeq(RowsByDevice, IsSelected)
        before(m, n) == \/ RowBefore(Keys(selected[m]), Keys(selected[n]))
                        \/ ~ RowBefore(Keys(selected[n]), Keys(selected[m])) /\ m < n
        order == SortSeq([n \in DOMAIN selected |-> n], before)
        inWindow(r) == RowsBefore(r[1]) + r[2] \in query.offset .. query.offset + query.limit - 1
    IN  IF LoadsWholeBlocks
        THEN SubSeq([n \in DOMAIN order |-> selected[order[n]]],
                    query.offset + 1, Min2(query.offset + query.limit, Len(order)))
        ELSE SelectSeq(RowsByDevice, inWindow)

\* The columns of the response, and those of the answer.
Returned(k) == [n \in DOMAIN response[k].data |->
                   IF n <= Len(response[k].mask) /\ response[k].mask[n]
                   THEN Null ELSE response[k].data[n]]
Wanted(k) == LET rows == Answer
             IN  [n \in DOMAIN rows |-> Cell(query.items[k].col, rows[n])]

\* The window begins in the first block or behind all rows, and its end is an int64_t.
WindowIsSimple ==
    LoadsWholeBlocks \/
        /\ query.offset + query.limit <= MaxInt
        /\ query.offset < GetBlockSize(0) \/ query.offset >= RowCount

\* No block of a nullable column is loaded in part and followed by another: the
\* null bits of the rows behind the part are not cleared.
NoBitsBehind ==
    \/ \A k \in Items : ~ Column(query.items[k].col).nullable
    \/ \A m \in 1 .. Len(BlocksByDevice) - 1 :
          LET window == GetLoadSize(BlocksByDevice[m])
          IN  window.size > 0 => window.offset + window.size = GetBlockSize(BlocksByDevice[m])

\* The null mask of a DateTime column is merged right if there is one payload.
MaskSizesKnown == query.date => GetBlockCount = 1

\* Sorted columns are nullable, their values above what stands for NULL, and at
\* most two blocks compete in a further column.
SortIsSimple ==
    UsingOrderBy =>
        /\ \A r \in Roles : Column(r.col).nullable
        /\ \A n \in DOMAIN query.order, r \in ToSet(RowsByDevice) :
              Cell(query.order[n].col, r) # Lowest
        /\ Len(query.order) = 1 \/ GetBlockCount <= 2

\* Joined rows have no NULL in the columns used, and are numbered as they are read,
\* by the block size of the database.
JoinIsSimple ==
    UsingJoin =>
        /\ \A c \in UsedColumns : NumberedBy(Column(c)) = input.blockSize
        /\ \A c \in UsedColumns, r \in ToSet(RowsByDevice) : Cell(c, r) # Null

\* No block that a device ends with is empty; only a merge join makes such blocks.
EndsWithRows ==
    \A b \in 0 .. GetBlockCount - 1 : b >= GetBlockCount - input.devices => GetBlockSize(b) > 0

-----------------------------------------------------------------------------
(* Properties *)

\* The rows of a query without aggregation, after LoadCol has cut the blocks,
\* reconstructCol filtered them, ORDER BY sorted and merged them, two merges of
\* payloads collected them and TrimPayload cut them, are the wanted ones in the
\* wanted order, with their NULLs, and the null mask has just the words it needs.
SelectedRowsRight ==
    /\ phase \in {"join", "execute", "merge", "done", "undefined"}
    /\ phase = "done" /\ ~ UsingAggregation =>
          \A k \in Items :
             WindowIsSimple /\ NoBitsBehind /\ MaskSizesKnown /\ SortIsSimple
                 /\ JoinIsSimple /\ (UsingOrderBy => EndsWithRows) =>
                /\ Returned(k) = Wanted(k)
                /\ response[k].mask # <<>> =>
                      Len(response[k].mask) = GetNullBitMaskSize(Len(response[k].data)) * WordBits

\* The values that aggregation k should be computed from.
Aggregated(k) ==
    LET rows == SelectSeq(RowsByDevice, IsSelected)
    IN  [n \in DOMAIN rows |-> Cell(query.items[k].col, rows[n])]

\* An aggregation without GROUP BY, computed for each block by GPUAggregation
\* and combined by AggregateOnCPU first among the blocks of a device, then among
\* the devices, is that of all selected rows.  Excepted are: an aggregation for
\* which the filter was reset by the one before it, NULLs, and AVG of several
\* blocks or of no row.
AggregatesRight ==
    phase = "done" /\ UsingAggregation /\ query.offset = 0 /\ query.limit > 0 /\ RowCount > 0 =>
        \A k \in Items :
            /\ \/ k = 1
               \/ query.where = ""
               \/ query.items[1].op # "COUNT" /\ query.items[1].col = query.items[k].col
            /\ Null \notin ToSet(Aggregated(k))
            /\ query.items[k].op = "AVG" => GetBlockCount = 1 /\ Aggregated(k) # <<>>
            => response[k].data = <<GPUAggregation(query.items[k].op, Aggregated(k))>>

\* The rows of a column that are not NULL, as <<number in the join, key>>.
JoinKeys(column) ==
    UNION {{<<(b - 1) * NumberedBy(column) + i, At(column.blocks[b], i)>> :
               i \in {j \in RowsOf(column.blocks[b]) : ~ NullBit(column.blocks[b], j)}} :
           b \in DOMAIN column.blocks}

\* The pairs that an inner join of the columns on equality consists of.
EqualPairs(left, right) ==
    {<<p[1][1], p[2][1]>> : p \in {q \in left \X right : q[1][2] = q[2][2]}}

\* The flags of A are read inside of its mask.
FlagsRead == Left.nullable => Len(Left.blocks) = 1

\* Hash join: the blocks of the left table fill the hash table without a gap.
TableIsRegular == \A b \in DOMAIN Left.blocks : RegularBlock(Left.blocks[b])

\* Join indices of kernel_eval_predicate_merge_path or of the hash table join
\* only rows with equal keys that are not NULL, each pair once; and all such
\* pairs are found by the merge path, and by the hash table if it has no gap.
JoinRight ==
    phase \in {"execute", "merge", "done"} /\ UsingJoin =>
        LET equal == EqualPairs(JoinKeys(Left), JoinKeys(Right))
            pairs == FlattenSeq(joinIndices)
        IN  (UsesMergeJoin => ColA = Left /\ FlagsRead) =>
              /\ ToSet(pairs) \subseteq equal
              /\ \A m, n \in DOMAIN pairs : pairs[m] = pairs[n] => m = n
              /\ UsesMergeJoin \/ TableIsRegular => equal \subseteq ToSet(pairs)

\* Every query is answered, or runs into what is undefined: the dispatcher that
\* merges the sorted blocks does not wait for a device that has no block, and
\* no exception ends the merge.
QueryAnswered ==
    <>(\/ phase \in {"done", "undefined"}
       \/ UsingOrderBy /\ phase = "execute" /\ ~ EndsWithRows)

=============================================================================
