------------------------------ MODULE GroupByTable ------------------------------
(***************************************************************************)
(* The hash table of GROUP BY on one GPU and the kernel that fills it      *)
(* (GPUGroupBy.cuh, GPUGroupByString.cuh/.cu, GPUGroupByMultiKey.cuh/.cu). *)
(* The threads of one kernel launch share the table without a lock: thread *)
(* t takes the rows t, t + Stride, ... of the block, looks for the slot of *)
(* the row's key by linear probing, claims an empty one with an atomic     *)
(* compare-and-set and aggregates the row's value into the slot's share.   *)
(* One step is one access to shared memory.                                *)
(*                                                                         *)
(* Three classes share this code and are told apart by "kind": a single    *)
(* numeric key is stored in the slot itself, so that one value of its type *)
(* (Lowest) stands for an empty slot; string and multi-column keys are too *)
(* wide for a compare-and-set, so a slot holds the number of an input row  *)
(* until the block is done and the key is copied to the key buffer.  The   *)
(* classes with a single key keep slot 0 for the NULL key; in a multi-key  *)
(* every column of the key may be NULL.                                    *)
(***************************************************************************)
EXTENDS Integers, Sequences

CONSTANTS
    Stride,          \* threads of a launch: blockDim.x * gridDim.x
    BlockDim,        \* threads of a CUDA block
    Bits,            \* width of int32_t
    Lowest,          \* numeric_limits<K>::lowest()
    Null,            \* a NULL key, key column or value
    StringHash(_),   \* GetHash of a string key
    MultiHash(_, _)  \* GetHash of a multi-key in a table of a given size

ASSUME LaunchAssumption == Stride \in Nat \ {0} /\ BlockDim \in Nat \ {0}
ASSUME LowestAssumption == Lowest \in Int /\ Lowest < 0

VARIABLES
    kind,         \* "numeric", "string" or "multi"
    op,           \* the aggregation AGG
    size,         \* keyBufferSize_
    lanes,        \* valueBufferMultiplier_
    slots,        \* keys_ of a numeric table, sourceIndices_ of the others
    buffer,       \* keysBuffer_
    values,       \* values_: slot and lane -> value
    valueNull,    \* valuesNullArray_
    occurrences,  \* keyOccurrenceCount_: slot and lane -> count
    rows,         \* inKeys and inValues of the launch
    running,      \* between launch and Swap
    full,         \* the error flag, GPU_HASH_TABLE_FULL
    pc, cur, probe, found, old,   \* the threads' registers
    undefined     \* a thread has used an index outside the table

tableVars == <<kind, op, size, lanes, slots, buffer, values, valueNull, occurrences>>
threadVars == <<pc, cur, probe, found, old>>
tvars == <<tableVars, rows, running, full, threadVars, undefined>>

Threads == 0..Stride - 1

UseValues == op \in {"min", "max", "sum", "avg"}
UseOccurrences == op \in {"avg", "count"}

-----------------------------------------------------------------------------
(* Integers of Bits bits *)

MinInt == -(2^(Bits - 1))
MaxInt == 2^(Bits - 1) - 1

\* The value of x in a signed type of Bits bits: a narrowing conversion, or
\* an addition that wraps.
Wrap(x) == ((x - MinInt) % (2^Bits)) + MinInt

\* abs() of the type: the smallest value has no positive counterpart.
Abs(x) == IF x < 0 /\ x # MinInt THEN -x ELSE x

\* The % of C++, whose result has the sign of x.
Rem(x, n) == IF x >= 0 THEN x % n ELSE -((-x) % n)


-----------------------------------------------------------------------------
(* Slots *)

\* Slot 0 belongs to the NULL key, except in a table of multi-keys.
Reserved == IF kind = "multi" THEN 0 ELSE 1

\* loweredMaxHashCount: the slots that keys are hashed to.
Capacity == size - Reserved

SlotIds == 0..size - 1

IsNullKey(k) == kind # "multi" /\ k = Null

Empty == IF kind = "numeric" THEN Lowest ELSE -1   \* GBS_SOURCE_INDEX_EMPTY_KEY

KeyInBuffer == -2   \* GBS_SOURCE_INDEX_KEY_IN_BUFFER

HashCode(k) == IF kind = "numeric" THEN Wrap(k)
               ELSE IF kind = "string" THEN StringHash(k) ELSE MultiHash(k, size)

Hash(k) == Rem(Abs(HashCode(k)), Capacity)

\* The j-th slot that a key is looked for in.
Index(k, j) == Rem(Hash(k) + j, Capacity) + Reserved

\* Slots a non-NULL key can use. A string key in slot 0 would be mixed up with
\* the length and the characters of the NULL key: its behaviour is undefined.
Usable(s) == s \in (IF kind = "string" THEN 1 ELSE 0)..size - 1

Row(i) == rows[i + 1]

Occupied(s) == slots[s] # Empty

\* The key a thread finds in an occupied slot.
KeyAt(s) == IF kind = "numeric" THEN slots[s]
            ELSE IF slots[s] >= 0 THEN Row(slots[s]).key ELSE buffer[s]

\* The key that is reported for an occupied slot.
SlotKey(s) == IF s < Reserved THEN Null ELSE KeyAt(s)

-----------------------------------------------------------------------------
(* Creation of a table *)

\* getInitValue
InitValue(o) == IF o = "min" THEN MaxInt ELSE IF o = "max" THEN MinInt ELSE 0

\* The constructor: a table for aggregation o of n slots with l lanes each.
CreateTable(k, o, n, l) ==
    /\ kind' = k /\ op' = o /\ size' = n /\ lanes' = l
    /\ slots' = [s \in 0..n - 1 |-> IF k = "numeric" THEN Lowest ELSE -1]
    /\ buffer' = [s \in 0..n - 1 |-> Null]
    /\ values' = [s \in 0..n - 1 |-> [j \in 0..l - 1 |-> InitValue(o)]]
    /\ valueNull' = [s \in 0..n - 1 |-> TRUE]
    /\ occurrences' = [s \in 0..n - 1 |-> [j \in 0..l - 1 |-> 0]]
    /\ full' = FALSE

-----------------------------------------------------------------------------
(* ProcessBlock: launch, the steps of a thread, end *)

\* The kernel is launched on the rows of one block.
Launch(r) ==
    /\ ~running /\ ~full /\ ~undefined /\ Len(r) > 0
    /\ running' = TRUE
    /\ rows' = r
    /\ pc' = [t \in Threads |-> "row"]
    /\ cur' = [t \in Threads |-> t]
    /\ probe' = [t \in Threads |-> 0]
    /\ found' = [t \in Threads |-> 0]
    /\ old' = [t \in Threads |-> 0]
    /\ UNCHANGED <<tableVars, full, undefined>>

HasRow(t) == pc[t] = "row" /\ cur[t] < Len(rows) /\ ~full

Key(t) == Row(cur[t]).key

\* The head of the loop over rows.
TakeRow(t) ==
    /\ HasRow(t) /\ ~IsNullKey(Key(t))
    /\ pc' = [pc EXCEPT ![t] = "look"]
    /\ probe' = [probe EXCEPT ![t] = 0]
    /\ UNCHANGED <<tableVars, rows, running, full, cur, found, old, undefined>>

\* A row with the NULL key: its slot is known.
TakeNullRow(t) ==
    /\ HasRow(t) /\ IsNullKey(Key(t))
    /\ slots' = [slots EXCEPT ![0] = IF kind = "numeric" THEN 0 ELSE KeyInBuffer]
    /\ found' = [found EXCEPT ![t] = 0]
    /\ pc' = [pc EXCEPT ![t] = "aggregate"]
    /\ UNCHANGED <<kind, op, size, lanes, buffer, values, valueNull, occurrences,
                   rows, running, full, cur, probe, old, undefined>>

\* No row left, or some thread has found the table full.
Leave(t) ==
    /\ pc[t] = "row" /\ (cur[t] >= Len(rows) \/ full)
    /\ pc' = [pc EXCEPT ![t] = "end"]
    /\ UNCHANGED <<tableVars, rows, running, full, cur, probe, found, old, undefined>>

\* Mutant: the last slot is not tried.
HasProbeShort(t) == probe[t] < Capacity - 1

\* Loop condition of the probing, and the error when all slots were tried.
HasProbe(t) == probe[t] < Capacity

NoSlot(t) ==
    /\ pc[t] = "look" /\ ~HasProbe(t)
    /\ full' = TRUE
    /\ cur' = [cur EXCEPT ![t] = @ + Stride]
    /\ pc' = [pc EXCEPT ![t] = "row"]
    /\ UNCHANGED <<tableVars, rows, running, probe, found, old, undefined>>

\* The first condition: another key is in the slot (IsNewKey).
OtherKeyAt(t, s) == Occupied(s) /\ KeyAt(s) # Key(t)

Advance(t) ==
    /\ probe' = [probe EXCEPT ![t] = @ + 1]
    /\ pc' = [pc EXCEPT ![t] = "look"]
    /\ UNCHANGED found

Look(t) ==
    /\ pc[t] = "look" /\ HasProbe(t) /\ Usable(Index(Key(t), probe[t]))
    /\ \/ OtherKeyAt(t, Index(Key(t), probe[t])) /\ Advance(t)
       \/ /\ ~OtherKeyAt(t, Index(Key(t), probe[t]))
          /\ pc' = [pc EXCEPT ![t] = "claim"]
          /\ UNCHANGED <<probe, found>>
    /\ UNCHANGED <<tableVars, rows, running, full, cur, old, undefined>>

\* A negative hash has led outside the table.
LookOutside(t) ==
    /\ pc[t] = "look" /\ HasProbe(t) /\ ~Usable(Index(Key(t), probe[t]))
    /\ undefined' = TRUE
    /\ UNCHANGED <<tableVars, rows, running, full, threadVars>>

\* What the compare-and-set stores.
Mine(t) == IF kind = "numeric" THEN Key(t) ELSE cur[t]

\* Mutant: the key is stored without a compare-and-set.
ClaimBlindly(t) ==
    LET s == Index(Key(t), probe[t]) IN
    /\ pc[t] = "claim"
    /\ slots' = [slots EXCEPT ![s] = Mine(t)]
    /\ found' = [found EXCEPT ![t] = s]
    /\ pc' = [pc EXCEPT ![t] = "aggregate"]
    /\ UNCHANGED <<kind, op, size, lanes, buffer, values, valueNull, occurrences,
                   rows, running, full, cur, probe, old, undefined>>

\* The slot is read again. An empty one is claimed; the compare-and-set of a
\* thread that comes too late returns the key of the winner.
Claim(t) ==
    LET s == Index(Key(t), probe[t]) IN
    /\ pc[t] = "claim"
    /\ \/ /\ ~Occupied(s)
          /\ slots' = [slots EXCEPT ![s] = Mine(t)]
          /\ found' = [found EXCEPT ![t] = s]
          /\ pc' = [pc EXCEPT ![t] = "aggregate"]
          /\ UNCHANGED probe
       \/ /\ Occupied(s) /\ KeyAt(s) = Key(t)
          /\ found' = [found EXCEPT ![t] = s]
          /\ pc' = [pc EXCEPT ![t] = "aggregate"]
          /\ UNCHANGED <<slots, probe>>
       \/ OtherKeyAt(t, s) /\ Advance(t) /\ UNCHANGED slots
    /\ UNCHANGED <<kind, op, size, lanes, buffer, values, valueNull, occurrences,
                   rows, running, full, cur, old, undefined>>

-----------------------------------------------------------------------------
(* Aggregation into the thread's lane of the slot *)

Lane(t) == (t % BlockDim) % lanes

Value(t) == Row(cur[t]).val

NextRow(t) ==
    /\ cur' = [cur EXCEPT ![t] = @ + Stride]
    /\ pc' = [pc EXCEPT ![t] = "row"]

\* The end of a row's aggregation: the group has a value, and one more.
Aggregated(t) ==
    /\ valueNull' = IF UseValues THEN [valueNull EXCEPT ![found[t]] = FALSE] ELSE valueNull
    /\ occurrences' = IF UseOccurrences
                      THEN [occurrences EXCEPT ![found[t]][Lane(t)] = @ + 1] ELSE occurrences
    /\ NextRow(t)

\* A NULL value is left out.
SkipNull(t) ==
    /\ pc[t] = "aggregate" /\ Value(t) = Null
    /\ NextRow(t)
    /\ UNCHANGED <<tableVars, rows, running, full, probe, found, old, undefined>>

\* sum and avg: atomicAdd; count and none keep no values.
Add(t) ==
    /\ pc[t] = "aggregate" /\ Value(t) # Null /\ op \notin {"min", "max"}
    /\ values' = IF op \in {"sum", "avg"}
                 THEN [values EXCEPT ![found[t]][Lane(t)] = Wrap(@ + Value(t))] ELSE values
    /\ Aggregated(t)
    /\ UNCHANGED <<kind, op, size, lanes, slots, buffer, rows, running, full, probe, found, old, undefined>>

Better(x, y) == IF op = "min" THEN x < y ELSE x > y

\* min and max: the value that is there is read ...
Read(t) ==
    LET v == values[found[t]][Lane(t)] IN
    /\ pc[t] = "aggregate" /\ Value(t) # Null /\ op \in {"min", "max"}
    /\ \/ /\ Better(Value(t), v)
          /\ old' = [old EXCEPT ![t] = v]
          /\ pc' = [pc EXCEPT ![t] = "swap"]
          /\ UNCHANGED <<valueNull, occurrences, cur>>
       \/ ~Better(Value(t), v) /\ Aggregated(t) /\ UNCHANGED old
    /\ UNCHANGED <<kind, op, size, lanes, slots, buffer, values, rows, running, full, probe, found, undefined>>

\* ... and replaced if it is still there; otherwise the new one is compared.
Exchange(t) ==
    LET v == values[found[t]][Lane(t)] IN
    /\ pc[t] = "swap"
    /\ \/ /\ v = old[t]
          /\ values' = [values EXCEPT ![found[t]][Lane(t)] = Value(t)]
          /\ Aggregated(t)
          /\ UNCHANGED old
       \/ /\ v # old[t] /\ Better(Value(t), v)
          /\ old' = [old EXCEPT ![t] = v]
          /\ UNCHANGED <<values, valueNull, occurrences, cur, pc>>
       \/ v # old[t] /\ ~Better(Value(t), v) /\ Aggregated(t) /\ UNCHANGED <<values, old>>
    /\ UNCHANGED <<kind, op, size, lanes, slots, buffer, rows, running, full, probe, found, undefined>>

Step(t) ==
    /\ running /\ ~undefined
    /\ \/ TakeRow(t) \/ TakeNullRow(t) \/ Leave(t)
       \/ Look(t) \/ LookOutside(t) \/ NoSlot(t) \/ Claim(t)
       \/ SkipNull(t) \/ Add(t) \/ Read(t) \/ Exchange(t)

-----------------------------------------------------------------------------

\* kernel_collect_*: the keys of the slots that name a row are copied to the
\* key buffer, and the slots marked.
Collect ==
    IF kind = "numeric" THEN UNCHANGED <<slots, buffer>>
    ELSE /\ buffer' = [s \in SlotIds |-> IF slots[s] >= 0 THEN Row(slots[s]).key ELSE buffer[s]]
         /\ slots' = [s \in SlotIds |-> IF slots[s] >= 0 THEN KeyInBuffer ELSE slots[s]]

\* All threads have ended and Swap has read the flag. When it is set the
\* exception leaves the table as it is, and ProcessBlock is not called again.
EndBlock ==
    /\ running /\ ~undefined /\ \A t \in Threads : pc[t] = "end"
    /\ running' = FALSE
    /\ IF full THEN UNCHANGED <<slots, buffer>> ELSE Collect
    /\ UNCHANGED <<kind, op, size, lanes, values, valueNull, occurrences, rows, full, threadVars, undefined>>

-----------------------------------------------------------------------------
(* One table by itself: any blocks, and a larger table whenever one is full *)

Kinds == {"numeric", "string", "multi"}

Aggregations == {"min", "max", "sum", "avg", "count", "none"}

\* A key that is not NULL, of the type that the table was made for.
IsKey(k) == ~IsNullKey(k) /\ HashCode(k) \in Int /\ (kind = "numeric" => k \in Int)

IsInput(r) == Len(r) \in Nat /\ \A i \in 1..Len(r) : IsNullKey(r[i].key) \/ IsKey(r[i].key)

TableInit ==
    /\ kind \in Kinds /\ op \in Aggregations
    /\ size \in Nat \ {0} /\ lanes \in Nat \ {0}
    /\ slots = [s \in SlotIds |-> Empty]
    /\ buffer = [s \in SlotIds |-> Null]
    /\ values = [s \in SlotIds |-> [j \in 0..lanes - 1 |-> InitValue(op)]]
    /\ valueNull = [s \in SlotIds |-> TRUE]
    /\ occurrences = [s \in SlotIds |-> [j \in 0..lanes - 1 |-> 0]]
    /\ rows = <<>> /\ running = FALSE /\ full = FALSE /\ undefined = FALSE
    /\ pc = [t \in Threads |-> "end"]
    /\ cur = [t \in Threads |-> 0] /\ probe = cur /\ found = cur /\ old = cur

\* The table is made anew, after it was full or for another query.
Recreate(k, o, n, l) ==
    /\ ~running /\ ~undefined
    /\ CreateTable(k, o, n, l)
    /\ UNCHANGED <<rows, running, threadVars, undefined>>

TableNext ==
    \/ \E r : IsInput(r) /\ Launch(r)
    \/ \E t \in Threads : Step(t)
    \/ EndBlock
    \/ \E k \in Kinds, o \in Aggregations, n, l \in Nat \ {0} : Recreate(k, o, n, l)

TableSpec == TableInit /\ [][TableNext]_tvars

-----------------------------------------------------------------------------
(* Properties *)

ThreadStates == {"row", "look", "claim", "aggregate", "swap", "end"}

TableTypeOK ==
    /\ kind \in Kinds /\ op \in Aggregations
    /\ size \in Nat \ {0} /\ lanes \in Nat \ {0}
    /\ slots \in [SlotIds -> Int]
    /\ kind # "numeric" => \A s \in SlotIds : slots[s] \in {Empty, KeyInBuffer} \cup 0..Len(rows) - 1
    /\ DOMAIN buffer = SlotIds
    /\ Len(rows) \in Nat
    /\ running \in BOOLEAN /\ full \in BOOLEAN /\ undefined \in BOOLEAN
    /\ pc \in [Threads -> ThreadStates]
    /\ cur \in [Threads -> Nat] /\ probe \in [Threads -> Nat] /\ found \in [Threads -> Int]
    /\ DOMAIN old = Threads

\* Keys whose hash is not negative and that are not mistaken for an empty slot.
Regular(k) ==
    \/ IsNullKey(k)
    \/ HashCode(k) # MinInt /\ (kind = "numeric" => k # Lowest)

\* Two threads never give one key two slots, and a thread aggregates into the
\* slot of its row's key, although the threads of group_by_kernel,
\* kernel_group_by_string and kernel_group_by_multi_key read a slot and claim it
\* in separate steps.
OneSlotPerKey ==
    /\ TableTypeOK
    /\ ~undefined =>
       \A s1, s2 \in SlotIds :
          s1 # s2 /\ Occupied(s1) /\ Occupied(s2) /\ Regular(SlotKey(s1)) =>
              SlotKey(s1) # SlotKey(s2)
    /\ running /\ ~undefined =>
       \A t \in Threads :
          pc[t] \in {"aggregate", "swap"} /\ Regular(Key(t)) =>
              found[t] \in SlotIds /\ Occupied(found[t]) /\ SlotKey(found[t]) = Key(t)

\* GPU_HASH_TABLE_FULL is raised only when every slot holds a key: a thread
\* that gives up has tried all of them.
FullOnlyWhenFull ==
    full /\ ~undefined /\ (\A i \in 1..Len(rows) : Regular(rows[i].key)) =>
        \A s \in Reserved..size - 1 : Occupied(s)

=============================================================================
