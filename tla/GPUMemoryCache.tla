---------------------------- MODULE GPUMemoryCache ----------------------------
(***************************************************************************)
(* The cache of column blocks in the memory of one GPU                     *)
(* (src/qikkDB/QueryEngine/GPUMemoryCache.h and .cpp), together with what  *)
(* uses it: the dispatcher thread of this device, which loads columns      *)
(* (LoadCol), allocates result registers (GPUMemory::alloc) and cleans     *)
(* them up block by block; INSERT and DROP TABLE, which change the blocks  *)
(* the cache holds copies of; and other queries, which take memory from    *)
(* the same suballocator at any moment.                                    *)
(*                                                                         *)
(* The suballocator is used through its promise (module GpuMemory).  Only  *)
(* its calls are atomic, so the check CanAllocate and the Allocate that    *)
(* follows it are two steps, as is every turn of an eviction loop.         *)
(*                                                                         *)
(* A key db.table.column_block_load_offset is the tuple of its parts; the  *)
(* column stands for db.table.column, or for the same with _nullMask.  The *)
(* content of a block is the number of the write that produced it.         *)
(***************************************************************************)
EXTENDS Integers, Sequences, FiniteSets, Functions

CONSTANTS
    PoolSize, Unit,     \* of the suballocator
    MaxSize,            \* maxSize_
    Device, DeviceCount,\* this cache's GPU, and how many GPUs there are
    Columns,            \* of the one table the queries are about
    Spans,              \* <<loadSize, loadOffset>> a query loads of each block
    RegisterSizes,      \* bytes a register takes; 0 for an empty result
    MaskedRegisters,    \* subset of BOOLEAN: may registers have a null mask
    OtherSizes,         \* bytes other queries ask for
    MaxOthers,          \* bound on what other queries hold
    MaxBlocks,          \* bound on the table's blocks
    MaxWrites           \* bound on the writes to the table

ASSUME CacheAssumption ==
    /\ PoolSize \in Nat \ {0} /\ Unit \in Nat \ {0} /\ MaxSize \in Nat
    /\ DeviceCount \in Nat \ {0} /\ Device \in 0 .. (DeviceCount - 1)
    /\ Spans \subseteq (Nat \ {0}) \X Nat /\ Spans # {}
    /\ RegisterSizes \subseteq Nat /\ OtherSizes \subseteq Nat \ {0}
    /\ MaskedRegisters \subseteq BOOLEAN
    /\ MaxBlocks \in Nat \ {0} /\ MaxWrites \in Nat /\ MaxOthers \in Nat

VARIABLES
    cacheMap,           \* key |-> its entry
    lruQueue,           \* the keys, next to be evicted first
    usedSize,
    lockList,           \* columns of the running query
    currentBlockIndex,
    span,               \* what the running query loads of a block
    call,               \* where the dispatcher thread is
    cached,             \* allocatedPointers_, the registers not to be freed
    owned,              \* allocatedPointers_, the pointers to be freed
    lost,               \* pointers that no variable of the program holds any more
    others,             \* pointers other queries hold
    heap,               \* the live regions of the suballocator
    host,               \* the table's blocks: the write that produced each
    writes,             \* number of writes so far
    dropped             \* of them, the ones to tables that were dropped since

cacheVars == <<cacheMap, lruQueue, usedSize>>
queryVars == <<lockList, currentBlockIndex, span>>
registerVars == <<cached, owned, lost>>
tableVars == <<host, writes, dropped>>
vars == <<cacheVars, queryVars, call, registerVars, others, heap, tableVars>>

Memory == INSTANCE GpuMemory WITH live <- heap, ret <- call, Requests <- OtherSizes

NoPtr == -1
Ptr == Memory!Address
Key == Columns \X (0 .. (MaxBlocks - 1)) \X (Nat \ {0}) \X Nat

Without(f, S) == [x \in DOMAIN f \ S |-> f[x]]
With(f, x, y) == [z \in DOMAIN f \cup {x} |-> IF z = x THEN y ELSE f[z]]

Entry(ptr, size, data) == [ptr |-> ptr, size |-> size, data |-> data]

\* The thread is at the named place; arg is what the call it is in was given.
At(place, arg, held) == [place |-> place, arg |-> arg, held |-> held]
Idle == At("idle", 0, NoPtr)
Running == At("running", 0, NoPtr)

(***************************************************************************)
(* The suballocator, as its callers see it.                                *)
(***************************************************************************)
Places(n) == {p \in Ptr : p % Unit = 0 /\ Memory!Gap(p, Memory!Rounded(n))}
CanAllocate(n) == Places(n) # {}
Allocated(n, p) == With(heap, p, Memory!Rounded(n))
Deallocated(S) == Without(heap, S)

(***************************************************************************)
(* Evict                                                                   *)
(***************************************************************************)
Digits[n \in Nat] == IF n < 10 THEN <<n>> ELSE Append(Digits[n \div 10], n % 10)

\* The digits of a key, in order, from the block index on.
KeyDigits(key) == Digits[key[2]] \o Digits[key[3]] \o Digits[key[4]]

\* Mutant: the lock list is not consulted.
NeverLocked(key) == FALSE

\* key.find_last_of(currentBlockIndexStr) is the position of the block index:
\* the last of all characters of key that are digits of currentBlockIndex_ is
\* the first digit of the block index.
IsLocked(key) ==
    LET digits == KeyDigits(key)
        current == Digits[currentBlockIndex]
        InCurrent(d) == \E j \in DOMAIN current : current[j] = d
    IN  /\ key[1] \in lockList
        /\ \A i \in DOMAIN digits : InCurrent(digits[i]) <=> i = 1

Evictable == {i \in DOMAIN lruQueue : ~IsLocked(lruQueue[i])}
Victim == lruQueue[CHOOSE i \in Evictable : \A j \in Evictable : i <= j]

\* The queue after the entries S were erased from it.
QueueWithout(S) ==
    LET Kept[i \in 0 .. Len(lruQueue)] ==
            IF i = 0 THEN <<>>
            ELSE IF lruQueue[i] \in S THEN Kept[i - 1]
            ELSE Append(Kept[i - 1], lruQueue[i])
    IN  Kept[Len(lruQueue)]

UsedWithout(S) == usedSize - SumFunctionOnSet([key \in S |-> cacheMap[key].size], S)

MemoryWithout(S) == Deallocated({cacheMap[key].ptr : key \in S})

\* Entries S leave the cache.
Drop(S) ==
    /\ cacheMap' = Without(cacheMap, S)
    /\ lruQueue' = QueueWithout(S)
    /\ usedSize' = UsedWithout(S)
    /\ heap' = MemoryWithout(S)

(***************************************************************************)
(* A query on this device: Parse sets the lock list, Execute the first     *)
(* block index.                                                            *)
(***************************************************************************)
BeginQuery ==
    /\ call = Idle
    /\ lockList' \in SUBSET Columns
    /\ span' \in Spans
    /\ currentBlockIndex' = Device
    /\ call' = Running
    /\ UNCHANGED <<cacheVars, registerVars, others, heap, tableVars>>

\* Mutant: registers that point into the cache are freed as well.
ReleaseCached == Deallocated(owned \cup {reg[2] : reg \in cached})

ReleaseRegisters == Deallocated(owned)

\* CleanUpGpuPointers
CleanUp ==
    /\ heap' = ReleaseRegisters
    /\ owned' = {}
    /\ cached' = {}

\* Mutant: the failure is ignored and the call tries again.
ThrowRetries == UNCHANGED <<heap, owned, cached, call, lost>>

\* An exception leaves the current instruction, and Execute cleans up.
Throw ==
    /\ CleanUp
    /\ call' = Idle
    /\ lost' = IF call.held = NoPtr THEN lost ELSE lost \cup {call.held}

IsLastBlockOfDevice == currentBlockIndex >= Len(host) - DeviceCount

Jmp ==
    /\ call = Running
    /\ ~IsLastBlockOfDevice
    /\ currentBlockIndex' = currentBlockIndex + DeviceCount
    /\ CleanUp
    /\ UNCHANGED <<cacheVars, lockList, span, call, lost, others, tableVars>>

Done ==
    /\ call = Running
    /\ IsLastBlockOfDevice
    /\ CleanUp
    /\ call' = Idle
    /\ UNCHANGED <<cacheVars, queryVars, lost, others, tableVars>>

(***************************************************************************)
(* LoadCol, and GetColumn inside it.                                       *)
(***************************************************************************)
KeyFor(column) == <<column, currentBlockIndex, span[1], span[2]>>
Size(key) == key[3]
HasFreeSpace(n) == usedSize + n <= MaxSize

LoadCol(column) ==
    /\ call = Running
    /\ column \in lockList
    /\ currentBlockIndex < Len(host)
    /\ \A reg \in cached : reg[1][1] # column

GetColumnHit(column) ==
    LET key == KeyFor(column) IN
    /\ LoadCol(column)
    /\ key \in DOMAIN cacheMap
    /\ lruQueue' = Append(QueueWithout({key}), key)
    /\ cached' = cached \cup {<<key, cacheMap[key].ptr>>}
    /\ UNCHANGED <<cacheMap, usedSize, queryVars, call, owned, lost, others, heap, tableVars>>

GetColumnMiss(column) ==
    LET key == KeyFor(column) IN
    /\ LoadCol(column)
    /\ key \notin DOMAIN cacheMap
    /\ IF Size(key) > MaxSize
       THEN /\ Throw
            /\ UNCHANGED <<cacheVars, queryVars, others, tableVars>>
       ELSE /\ call' = At("find space", key, NoPtr)
            /\ UNCHANGED <<cacheVars, queryVars, registerVars, others, heap, tableVars>>

\* One evaluation of the condition of the eviction loop, and one turn of it.
GetColumnEvict ==
    LET size == Size(call.arg) IN
    /\ call.place = "find space"
    /\ ~(HasFreeSpace(size) /\ CanAllocate(size))
    /\ IF Evictable = {}
       THEN Throw /\ UNCHANGED <<cacheVars, queryVars, others, tableVars>>
       ELSE Drop({Victim}) /\ UNCHANGED <<queryVars, call, registerVars, others, tableVars>>

GetColumnFound ==
    LET size == Size(call.arg) IN
    /\ call.place = "find space"
    /\ HasFreeSpace(size) /\ CanAllocate(size)
    /\ call' = At("allocate", call.arg, NoPtr)
    /\ UNCHANGED <<cacheVars, queryVars, registerVars, others, heap, tableVars>>

\* Allocate, then the new entry; LoadCol copies the block into it.
GetColumnInsert ==
    LET key == call.arg
        size == Size(key)
    IN
    /\ call.place = "allocate"
    /\ \E p \in Places(size) :
        /\ heap' = Allocated(size, p)
        /\ cacheMap' = With(cacheMap, key, Entry(p, size, host[currentBlockIndex + 1]))
        /\ cached' = cached \cup {<<key, p>>}
    /\ usedSize' = usedSize + size
    /\ lruQueue' = Append(lruQueue, key)
    /\ call' = Running
    /\ UNCHANGED <<queryVars, owned, lost, others, tableVars>>

\* Somebody took the memory after the check: Allocate throws.
GetColumnTooLate ==
    /\ call.place = "allocate"
    /\ ~CanAllocate(Size(call.arg))
    /\ Throw
    /\ UNCHANGED <<cacheVars, queryVars, others, tableVars>>

(***************************************************************************)
(* AllocateRegister: one or two calls of GPUMemory::alloc, each of which   *)
(* retries Allocate after evicting an entry for as long as there is one.   *)
(* Allocate refuses a request of no bytes with the same exception.         *)
(***************************************************************************)
AllocateRegister(n, masked) ==
    /\ call = Running
    /\ call' = At(IF masked THEN "alloc data" ELSE "alloc", n, NoPtr)
    /\ UNCHANGED <<cacheVars, queryVars, registerVars, others, heap, tableVars>>

AllocPlaces == {p \in Places(call.arg) : call.arg > 0}

AllocSucceeds ==
    /\ call.place \in {"alloc", "alloc data"}
    /\ \E p \in AllocPlaces :
        /\ heap' = Allocated(call.arg, p)
        /\ IF call.place = "alloc data"
           THEN /\ call' = At("alloc", Unit, p)    \* the mask is next
                /\ UNCHANGED owned
           ELSE /\ call' = Running
                /\ owned' = owned \cup ({p, call.held} \ {NoPtr})
    /\ UNCHANGED <<cacheVars, queryVars, cached, lost, others, tableVars>>

AllocEvicts ==
    /\ call.place \in {"alloc", "alloc data"}
    /\ AllocPlaces = {}
    /\ IF Evictable = {}
       THEN Throw /\ UNCHANGED <<cacheVars, queryVars, others, tableVars>>
       ELSE Drop({Victim}) /\ UNCHANGED <<queryVars, call, registerVars, others, tableVars>>

(***************************************************************************)
(* Other queries, which use the suballocator but not this cache.           *)
(***************************************************************************)
OtherAllocates(n) ==
    /\ Cardinality(others) < MaxOthers
    /\ \E p \in Places(n) :
        /\ heap' = Allocated(n, p)
        /\ others' = others \cup {p}
    /\ UNCHANGED <<cacheVars, queryVars, call, registerVars, tableVars>>

OtherFrees ==
    /\ \E p \in others :
        /\ heap' = Deallocated({p})
        /\ others' = others \ {p}
    /\ UNCHANGED <<cacheVars, queryVars, call, registerVars, tableVars>>

(***************************************************************************)
(* INSERT INTO, with the mutex of the database held: first the cached      *)
(* copies of the blocks that may change are dropped, on the device that    *)
(* processes the block, then the table changes.                            *)
(***************************************************************************)
IsPrefix(s, t) == Len(s) <= Len(t) /\ \A i \in DOMAIN s : s[i] = t[i]

\* ClearCachedBlock(block) drops every key that begins with the name of the
\* block, so that clearing block 1 clears blocks 10 to 19 as well.
Cleared(block) == {key \in DOMAIN cacheMap : IsPrefix(Digits[block], Digits[key[2]])}

\* Mutant: the block the row is appended to is not cleared.
ClearPastLast(from) ==
    UNION {Cleared(i) : i \in {j \in (from + 1) .. (Len(host) - 1) : j % DeviceCount = Device}}

ClearCachedBlocks(from) ==
    UNION {Cleared(i) : i \in {j \in from .. (Len(host) - 1) : j % DeviceCount = Device}}

Appended == Append(host, writes + 1)
Written(b) == [host EXCEPT ![b] = writes + 1]
Split(b) == SubSeq(host, 1, b - 1) \o <<writes + 1, writes + 2>> \o SubSeq(host, b + 1, Len(host))

\* Without a clustered index the row goes to the last block or a new one.
InsertInto ==
    /\ call = Idle
    /\ writes + 1 <= MaxWrites
    /\ \/ host' = Appended /\ Len(host) < MaxBlocks
       \/ host # <<>> /\ host' = Written(Len(host))
    /\ Drop(ClearCachedBlocks(IF host = <<>> THEN 0 ELSE Len(host) - 1))
    /\ writes' = writes + 1
    /\ UNCHANGED <<queryVars, call, registerVars, others, dropped>>

\* With one it goes to any block, which may have to be split.
InsertIntoClustered ==
    /\ call = Idle
    /\ writes + 2 <= MaxWrites
    /\ \/ host' = Appended /\ host = <<>>
       \/ \E b \in DOMAIN host : host' = Written(b) \/ (Len(host) < MaxBlocks /\ host' = Split(b))
    /\ Drop(ClearCachedBlocks(0))
    /\ writes' = writes + 2
    /\ UNCHANGED <<queryVars, call, registerVars, others, dropped>>

\* DROP TABLE and CREATE TABLE of the same columns.
DropTable ==
    /\ call = Idle
    /\ host' = <<>>
    /\ dropped' = writes
    /\ UNCHANGED <<cacheVars, queryVars, call, registerVars, others, heap, writes>>

Init ==
    /\ cacheMap = [key \in {} |-> 0] /\ lruQueue = <<>> /\ usedSize = 0
    /\ lockList = {} /\ currentBlockIndex = 0
    /\ span = CHOOSE s \in Spans : TRUE
    /\ call = Idle /\ cached = {} /\ owned = {} /\ lost = {} /\ others = {}
    /\ heap = [p \in {} |-> 0]
    /\ host = <<>> /\ writes = 0 /\ dropped = 0

\* The steps of the call that the dispatcher thread is in the middle of.
CallStep ==
    \/ GetColumnEvict \/ GetColumnFound \/ GetColumnInsert \/ GetColumnTooLate
    \/ AllocSucceeds \/ AllocEvicts

Next ==
    \/ BeginQuery \/ Jmp \/ Done
    \/ \E column \in Columns : GetColumnHit(column) \/ GetColumnMiss(column)
    \/ \E n \in RegisterSizes, masked \in MaskedRegisters : AllocateRegister(n, masked)
    \/ CallStep
    \/ \E n \in OtherSizes : OtherAllocates(n)
    \/ OtherFrees
    \/ InsertInto \/ InsertIntoClustered \/ DropTable

Spec == Init /\ [][Next]_vars /\ WF_vars(CallStep)
-----------------------------------------------------------------------------
\* Every entry, pointer and request is of its kind.
TypeOK ==
    /\ DOMAIN cacheMap \subseteq Key
    /\ \A key \in DOMAIN cacheMap : cacheMap[key] \in [ptr: Ptr, size: Nat \ {0}, data: Nat]
    /\ lruQueue \in Seq(Key)
    /\ usedSize \in Nat
    /\ lockList \subseteq Columns /\ currentBlockIndex \in Nat /\ span \in Spans
    /\ call.place \in {"idle", "running", "find space", "allocate", "alloc", "alloc data"}
    /\ call.held \in Ptr \cup {NoPtr}
    /\ cached \subseteq Key \X Ptr
    /\ owned \subseteq Ptr /\ lost \subseteq Ptr /\ others \subseteq Ptr
    /\ DOMAIN heap \subseteq Ptr
    /\ host \in Seq(1 .. MaxWrites) /\ Len(host) <= MaxBlocks
    /\ writes \in 0 .. MaxWrites /\ dropped \in 0 .. writes

\* usedSize_ is the number of bytes the entries were asked for, and never
\* more than maxSize_, after any mix of hits, evictions, insertions that
\* failed and blocks cleared by INSERT.
UsedSizeExact ==
    /\ usedSize = SumFunction([key \in DOMAIN cacheMap |-> cacheMap[key].size])
    /\ usedSize <= MaxSize

\* cacheMap_ and lruQueue_ hold the same entries, each of them once: the
\* iterator an entry keeps into the queue is always the one to erase.
QueueMatchesMap ==
    /\ DOMAIN cacheMap = {lruQueue[i] : i \in DOMAIN lruQueue}
    /\ \A i, j \in DOMAIN lruQueue : lruQueue[i] = lruQueue[j] => i = j

CachePtrs == {cacheMap[key].ptr : key \in DOMAIN cacheMap}

\* Every entry owns a live region of its size that no other entry, register
\* or query has: nothing frees the memory of an entry that stays cached, and
\* no two owners ever free the same pointer.
EntriesOwnMemory ==
    /\ \A key \in DOMAIN cacheMap :
        /\ cacheMap[key].ptr \in DOMAIN heap
        /\ heap[cacheMap[key].ptr] = Memory!Rounded(cacheMap[key].size)
        /\ \A k \in DOMAIN cacheMap : cacheMap[k].ptr = cacheMap[key].ptr => k = key
    /\ CachePtrs \cap (owned \cup others \cup lost \cup {call.held}) = {}
    /\ owned \cap (others \cup lost \cup {call.held}) = {}

\* CleanUpGpuPointers "Clears all allocated buffers": whatever the query's
\* end, nothing stays allocated but cached blocks, other queries' buffers and
\* what AllocateRegister itself has forgotten.
AllBuffersCleared == call = Idle => DOMAIN heap = CachePtrs \cup others \cup lost

\* After any sequence of calls of GetColumn, evict, ClearCachedBlock and alloc
\* the cache's accounting is exact, and GPU memory has one owner at any time
\* and none of it is forgotten.
CacheConsistent ==
    TypeOK /\ UsedSizeExact /\ QueueMatchesMap /\ EntriesOwnMemory /\ AllBuffersCleared

\* A cached copy is the block's present content, so a hit in LoadCol "loads
\* the current block of given column", unless it is of a table that was
\* dropped since: no sequence of inserts, splits and queries makes it stale.
CachedBlocksCurrent ==
    \A key \in DOMAIN cacheMap :
        /\ cacheMap[key].data > dropped
        /\ key[2] < Len(host)
        => cacheMap[key].data = host[key[2] + 1]

\* No digit of the current block index occurs in key after the block index.
DigitsApart(key) ==
    LET digits == KeyDigits(key)
        current == Digits[currentBlockIndex]
    IN  \A i \in 2 .. Len(digits), j \in DOMAIN current : digits[i] # current[j]

\* The columns on the lock list, "columns that must not be evicted", stay
\* in the cache while the registers of the running block point into it,
\* where the block index can be told from the other numbers of the key.
LockedColumnsStay ==
    \A reg \in cached : DigitsApart(reg[1]) =>
        reg[1] \in DOMAIN cacheMap /\ cacheMap[reg[1]].ptr = reg[2]

\* The eviction loops of GetColumn and GPUMemory::alloc end, even when other
\* queries keep taking the memory that evictions give back.
CallsReturn == (call \notin {Idle, Running}) ~> (call \in {Idle, Running})
=============================================================================
