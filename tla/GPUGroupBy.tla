------------------------------- MODULE GPUGroupBy -------------------------------
(***************************************************************************)
(* A GROUP BY query: every device groups its blocks into a hash table of   *)
(* its own (GroupByTable), starting again with a larger one when the table *)
(* is full, and the device of the last block merges the tables by grouping *)
(* their contents once more (GetResults of GPUGroupBy.cuh,                 *)
(* GPUGroupByString.cuh and GPUGroupByMultiKey.cuh; AggregationGroupBy and *)
(* HandleHashTableFull of the dispatcher).                                 *)
(*                                                                         *)
(* Devices share nothing before the merge, so they take their turns here;  *)
(* that the merge waits for all of them is the subject of GpuSqlDispatcher.*)
(***************************************************************************)
EXTENDS GroupByTable, FiniteSets, SequencesExt, FiniteSetsExt, Functions

CONSTANTS
    Queries,            \* kind, op, source of the values, blocks of rows
    Devices,            \* getDeviceCount()
    Buckets,            \* GetGroupByBuckets()
    BufferSizeMax,      \* GB_BUFFER_SIZE_MAX
    DefaultMultiplier   \* GB_VALUE_BUFFER_DEFAULT_MULTIPLIER

VARIABLES
    query,    \* the query
    device,   \* the device that is grouping
    block,    \* how many of its blocks are done
    mult,     \* hashTableMultiplier_
    tables,   \* the raw contents of the tables of the devices before it
    sums,     \* valuesMerged: the sums while the merge of avg counts
    stage,    \* "blocks", "merge", "merging", "count", "counting", "done", "failed"
    result    \* the groups: <<key, value>>

qvars == <<query, device, block, mult, tables, sums, stage, result>>
vars == <<tvars, qvars>>

-----------------------------------------------------------------------------
(* Input of ProcessBlock *)

BlockCount == Len(query.blocks)

BlockIndex == device + block * Devices

\* Positions of the rows that the WHERE clause keeps (reconstructColKeep).
KeptIn(b) == SelectSeq([i \in 1..Len(b) |-> i], LAMBDA i : b[i].kept)

\* The value the kernel gets for the i-th of the kept rows. The null mask of
\* COUNT(column), and a value column that is a key as well, are not
\* reconstructed: their i-th entry is that of the i-th row of the block.
ValueOf(b, i) ==
    IF query.op = "none" \/ query.source = "asterisk" THEN 0
    ELSE IF query.op = "count" THEN IF b[i].val = Null THEN Null ELSE 0
    ELSE IF query.source = "key" THEN b[i].key
    ELSE b[KeptIn(b)[i]].val

InputRows(b) == [i \in 1..Len(KeptIn(b)) |-> [key |-> b[KeptIn(b)[i]].key, val |-> ValueOf(b, i)]]

-----------------------------------------------------------------------------
(* Tables *)

ReservedIn(k) == IF k = "multi" THEN 0 ELSE 1

\* Constructor parameters: maxHashCount buckets, keySizeMultiplier m.
TableSize(k, n, m) == Min({n * m, BufferSizeMax}) + ReservedIn(k)

Lanes(m) == IF m > DefaultMultiplier THEN 1 ELSE DefaultMultiplier \div m

NewTable(k, o, n, m) == CreateTable(k, o, TableSize(k, n, m), Lanes(m))

\* kernel_merge_multiplied_arrays, with the nonatomic operation of AGG.
Nonatomic(x, y) ==
    CASE op = "min" -> Min({x, y})
      [] op = "max" -> Max({x, y})
      [] OTHER -> Wrap(x + y)

MergedValue(s) == FoldFunction(Nonatomic, InitValue(op), values[s])

MergedOccurrences(s) == FoldFunction(LAMBDA x, y : x + y, 0, occurrences[s])

\* The occupied slots, in the order in which reconstructCol returns them.
OccupiedSlots == SetToSortSeq({s \in SlotIds : Occupied(s)}, <)

\* An array of the table, without its unoccupied slots.
Reconstruct(array) == [i \in 1..Len(OccupiedSlots) |-> array[OccupiedSlots[i]]]

\* ReconstructRawNumbers: what a table contributes to the merge.
RawNumbers == Reconstruct([s \in SlotIds |->
    [key |-> SlotKey(s), val |-> IF valueNull[s] THEN Null ELSE MergedValue(s), occ |-> MergedOccurrences(s)]])

\* Division of integers in C++, towards zero.
Quot(x, n) == IF x >= 0 THEN x \div n ELSE -((-x) \div n)

\* GetResults of a single table.
FinalValue(s) ==
    CASE op = "none" -> 0
      [] op = "count" -> MergedOccurrences(s)
      [] op = "avg" /\ ~valueNull[s] -> Quot(MergedValue(s), MergedOccurrences(s))
      [] OTHER -> IF valueNull[s] THEN Null ELSE MergedValue(s)

Results == Reconstruct([s \in SlotIds |-> <<SlotKey(s), FinalValue(s)>>])

-----------------------------------------------------------------------------
(* The blocks of one device *)

NoRows == <<>>

Init ==
    /\ query \in Queries
    /\ kind = query.kind /\ op = query.op
    /\ size = TableSize(kind, Buckets, 1) /\ lanes = Lanes(1)
    /\ slots = [s \in SlotIds |-> Empty]
    /\ buffer = [s \in SlotIds |-> Null]
    /\ values = [s \in SlotIds |-> [j \in 0..lanes - 1 |-> InitValue(op)]]
    /\ valueNull = [s \in SlotIds |-> TRUE]
    /\ occurrences = [s \in SlotIds |-> [j \in 0..lanes - 1 |-> 0]]
    /\ rows = NoRows /\ running = FALSE /\ full = FALSE /\ undefined = FALSE
    /\ pc = [t \in Threads |-> "end"]
    /\ cur = [t \in Threads |-> 0] /\ probe = cur /\ found = cur /\ old = cur
    /\ device = 0 /\ block = 0 /\ mult = 1 /\ tables = <<>> /\ sums = <<>>
    /\ stage = "blocks" /\ result = <<>>

\* AggregationGroupBy of the next block of the device: the kernel is launched
\* unless no row is left.
ProcessBlock ==
    /\ stage = "blocks" /\ ~running /\ ~full /\ ~undefined /\ BlockIndex < BlockCount
    /\ LET r == InputRows(query.blocks[BlockIndex + 1]) IN
       \/ Launch(r) /\ UNCHANGED qvars
       \/ r = <<>> /\ block' = block + 1
          /\ UNCHANGED <<tvars, query, device, mult, tables, sums, stage, result>>

ThreadStep(t) == Step(t) /\ UNCHANGED qvars

\* The kernel has ended and the block is done, unless the table was full.
BlockDone ==
    /\ EndBlock
    /\ block' = IF stage = "blocks" /\ ~full THEN block + 1 ELSE block
    /\ UNCHANGED <<query, device, mult, tables, sums, stage, result>>

\* Another attempt would not have a larger table; a merge is not repeated.
LastAttempt == stage # "blocks" \/ Buckets * mult >= BufferSizeMax

\* The exception of a full table ends the query.
Fail ==
    /\ ~running /\ full /\ stage \in {"blocks", "merging", "counting"} /\ LastAttempt
    /\ stage' = "failed"
    /\ UNCHANGED <<tvars, query, device, block, mult, tables, sums, result>>

\* Mutant: the table is made anew with the size it had.
NotGrown == mult

\* The heuristic for the new size: the share of blocks done so far.
Grown == LET divider == BlockIndex - device + Devices
         IN mult * ((BlockCount + divider \div 2) \div divider + 1)

\* The table is dropped and the device starts again with its first block.
HandleHashTableFull ==
    /\ ~running /\ full /\ ~LastAttempt /\ stage = "blocks"
    /\ mult' = Grown
    /\ block' = 0
    /\ NewTable(query.kind, query.op, Buckets, Grown)
    /\ UNCHANGED <<rows, running, threadVars, undefined, query, device, tables, sums, stage, result>>

\* The device has done its last block, and another one has blocks too.
NextDevice ==
    /\ stage = "blocks" /\ ~running /\ ~full /\ ~undefined
    /\ BlockIndex >= BlockCount /\ device + 1 < Min({Devices, BlockCount})
    /\ tables' = Append(tables, [raw |-> RawNumbers, size |-> size])
    /\ device' = device + 1
    /\ block' = 0
    /\ mult' = 1
    /\ NewTable(query.kind, query.op, Buckets, 1)
    /\ UNCHANGED <<rows, running, threadVars, undefined, query, sums, stage, result>>

-----------------------------------------------------------------------------
(* GetResults, on the device of the last block *)

AllBlocksDone ==
    /\ stage = "blocks" /\ ~running /\ ~full /\ ~undefined
    /\ BlockIndex >= BlockCount /\ device + 1 = Min({Devices, BlockCount})

\* tables[1] is null.
SingleTable ==
    /\ AllBlocksDone /\ tables = <<>>
    /\ result' = Results
    /\ stage' = "done"
    /\ UNCHANGED <<tvars, query, device, block, mult, tables, sums>>

AllTables == Append(tables, [raw |-> RawNumbers, size |-> size])

\* The contents of all tables, one after the other.
Collected == FlattenSeq([i \in 1..Len(AllTables) |-> AllTables[i].raw])

\* The host buffer for multi-keys has room for as many tables of the size of
\* the merging device as there are devices; their tables may be larger.
HostBufferHolds ==
    query.kind # "multi" \/
    Len(Collected) <= AllTables[((BlockCount - 1) % Devices) + 1].size * Devices

\* Mutant: the counts of the devices are counted, not added.
SameOp == query.op

MergeOp == IF query.op \in {"avg", "count"} THEN "sum" ELSE query.op

\* Rows for the final table: the values, or the counts, of the groups.
MergeRows(c) == [i \in 1..Len(c) |-> [key |-> c[i].key, val |->
    CASE query.op = "none" -> 0
      [] query.op = "count" -> c[i].occ
      [] OTHER -> c[i].val]]

MergeTables ==
    /\ AllBlocksDone /\ tables # <<>>
    /\ IF Collected = <<>>
       THEN stage' = "done" /\ UNCHANGED <<tvars, tables>>
       ELSE IF ~HostBufferHolds
       THEN undefined' = TRUE
            /\ UNCHANGED <<tableVars, rows, running, full, threadVars, tables, stage>>
       ELSE /\ NewTable(query.kind, MergeOp, Len(Collected), 1)
            /\ tables' = AllTables
            /\ stage' = "merge"
            /\ UNCHANGED <<rows, running, threadVars, undefined>>
    /\ UNCHANGED <<query, device, block, mult, sums, result>>

MergeRowsOf(t) == MergeRows(FlattenSeq([i \in 1..Len(t) |-> t[i].raw]))

\* ProcessBlock of the final table, or of sumGroupBy.
LaunchMerge ==
    /\ stage = "merge"
    /\ Launch(MergeRowsOf(tables))
    /\ stage' = "merging"
    /\ UNCHANGED <<query, device, block, mult, tables, sums, result>>

Merged == ~running /\ ~full /\ ~undefined

MergeDone ==
    /\ stage = "merging" /\ Merged /\ query.op # "avg"
    /\ result' = Results
    /\ stage' = "done"
    /\ UNCHANGED <<tvars, query, device, block, mult, tables, sums>>

\* countGroupBy: a table that has the keys of sumGroupBy from the start, so
\* that both return their groups in the same order. A numeric one gets the
\* keys without gaps and is just large enough; the others are copied as they are.
StartCount ==
    LET keys == Reconstruct(slots)
        first == IF Occupied(0) THEN 0 ELSE 1
        n == Len(keys) + first
    IN
    /\ stage = "merging" /\ Merged /\ query.op = "avg"
    /\ sums' = Reconstruct([s \in SlotIds |-> MergedValue(s)])
    /\ stage' = "count"
    /\ IF kind = "numeric"
       THEN /\ size' = n
            /\ slots' = [s \in 0..n - 1 |-> IF s < first THEN Empty ELSE keys[s - first + 1]]
            /\ buffer' = [s \in 0..n - 1 |-> Null]
       ELSE UNCHANGED <<size, slots, buffer>>
    /\ values' = [s \in 0..size' - 1 |-> [j \in 0..lanes - 1 |-> 0]]
    /\ valueNull' = [s \in 0..size' - 1 |-> TRUE]
    /\ occurrences' = [s \in 0..size' - 1 |-> [j \in 0..lanes - 1 |-> 0]]
    /\ UNCHANGED <<kind, op, lanes, rows, running, full, threadVars, undefined,
                   query, device, block, mult, tables, result>>

\* ProcessBlock of countGroupBy: the occurrences of the groups with a value.
LaunchCount ==
    LET c == FlattenSeq([i \in 1..Len(tables) |-> tables[i].raw]) IN
    /\ stage = "count"
    /\ Launch([i \in 1..Len(c) |-> [key |-> c[i].key,
                                    val |-> IF c[i].val = Null THEN Null ELSE c[i].occ]])
    /\ stage' = "counting"
    /\ UNCHANGED <<query, device, block, mult, tables, sums, result>>

\* The sums are divided by the counts, entry by entry.
Divide ==
    LET counts == Reconstruct([s \in SlotIds |-> MergedValue(s)])
        keys == Reconstruct([s \in SlotIds |-> SlotKey(s)])
        none == Reconstruct(valueNull)
    IN
    /\ stage = "counting" /\ Merged
    /\ result' = [i \in 1..Len(keys) |->
                    <<keys[i], IF none[i] THEN Null ELSE Quot(sums[i], counts[i])>>]
    /\ stage' = "done"
    /\ UNCHANGED <<tvars, query, device, block, mult, tables, sums>>

Host ==
    \/ ProcessBlock \/ BlockDone \/ Fail \/ HandleHashTableFull \/ NextDevice
    \/ SingleTable \/ MergeTables \/ LaunchMerge \/ MergeDone
    \/ StartCount \/ LaunchCount \/ Divide

Finished == stage \in {"done", "failed"} \/ undefined

Next == Host \/ (\E t \in Threads : ThreadStep(t)) \/ (Finished /\ UNCHANGED vars)

\* Every thread of a kernel makes progress, and so does the host.
Fairness == WF_vars(Host) /\ \A t \in Threads : WF_vars(ThreadStep(t))

Spec == Init /\ [][Next]_vars /\ Fairness

-----------------------------------------------------------------------------
(* Properties *)

KeptRows == FlattenSeq([b \in 1..BlockCount |->
    SelectSeq(query.blocks[b], LAMBDA r : r.kept)])

\* The value column of a kept row.
ValueColumn(r) == IF query.source = "key" THEN r.key ELSE r.val

\* The values of a group, without NULLs, by position.
GroupValues(k) ==
    SelectSeq([i \in 1..Len(KeptRows) |->
        IF KeptRows[i].key # k THEN Null
        ELSE IF query.source = "asterisk" THEN 0 ELSE ValueColumn(KeptRows[i])],
        LAMBDA v : v # Null)

SumOf(q) == Wrap(FoldSeq(LAMBDA x, y : x + y, 0, q))

\* What SQL says of the group of k. A sum has the width of its column.
Expected(k) ==
    LET q == GroupValues(k) IN
    CASE query.op = "none" -> 0
      [] query.op = "count" -> Len(q)
      [] q = <<>> -> Null
      [] query.op = "min" -> Min(ToSet(q))
      [] query.op = "max" -> Max(ToSet(q))
      [] query.op = "sum" -> SumOf(q)
      [] query.op = "avg" -> Quot(SumOf(q), Len(q))

\* Keys and values of a query that belong to the same rows when the kernel
\* gets them.
Aligned ==
    \/ \A b \in 1..BlockCount : \A i \in DOMAIN query.blocks[b] : query.blocks[b][i].kept
    \/ query.op = "none" \/ query.source = "asterisk"
    \/ query.source = "column" /\ query.op # "count"

\* GROUP BY returns every group once and with the right value, whatever the
\* interleaving of the kernel's threads, on however many devices the blocks
\* were and however often a table had to grow: GetResults of GPUGroupBy.cuh,
\* GPUGroupByString.cuh and GPUGroupByMultiKey.cuh.
GroupsRight ==
    stage = "done" /\ Aligned /\ (\A r \in ToSet(KeptRows) : Regular(r.key)) =>
        LET keys == {r.key : r \in ToSet(KeptRows)} IN
        /\ Len(result) = Cardinality(keys)
        /\ ToSet(result) = {<<k, Expected(k)>> : k \in keys}

\* Every query ends: with a result, with the error of a full table, or with an
\* index outside of a table. Neither probing nor the exchange of a minimum nor
\* growing a table goes on for ever.
QueryEnds == <>Finished

=============================================================================
