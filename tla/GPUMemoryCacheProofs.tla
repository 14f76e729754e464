------------------------- MODULE GPUMemoryCacheProofs -------------------------
(***************************************************************************)
(* Proofs about the cache of column blocks, for any pool, columns, spans,  *)
(* sizes and bounds: its accounting is exact and GPU memory has one owner, *)
(* its copies are current, and the columns of the running block stay.      *)
(***************************************************************************)
EXTENDS GPUMemoryCacheLemmas

-----------------------------------------------------------------------------
(***************************************************************************)
(* The steps of a query.                                                   *)
(***************************************************************************)

\* The next block of the device is again one of the device.
LEMMA NextOfDevice ==
    ASSUME NEW b \in Nat, NEW d \in Nat \ {0}
    PROVE  (b + d) % d = b % d
<1> DEFINE q == b \div d
           r == b % d
           q2 == (b + d) \div d
           r2 == (b + d) % d
<1>1. q \in Int /\ r \in 0 .. (d - 1) /\ b = d * q + r
  OBVIOUS
<1>2. q2 \in Int /\ r2 \in 0 .. (d - 1) /\ b + d = d * q2 + r2
  OBVIOUS
<1> HIDE DEF q, r, q2, r2
<1>3. d * q2 + r2 = d * (q + 1) + r
  <2>1. d * (q + 1) = d * q + d
    BY <1>1
  <2>2. d * q \in Int /\ d * q2 \in Int
    BY <1>1, <1>2
  <2> QED
    BY <2>1, <2>2, <1>1, <1>2
<1>4. q2 = q + 1
  <2>1. ASSUME NEW x \in Int, NEW y \in Int, x < y
        PROVE  d * y >= d * x + d
    <3>1. y - x >= 1
      BY <2>1
    <3>2. d * (y - x) >= d
      BY <3>1
    <3>3. d * (y - x) = d * y - d * x
      OBVIOUS
    <3> QED
      BY <3>2, <3>3
  <2>2. q2 < q + 1 => FALSE
    <3> SUFFICES ASSUME q2 < q + 1 PROVE FALSE
      BY Zenon
    <3>1. d * (q + 1) >= d * q2 + d
      BY <2>1, <1>1, <1>2
    <3>2. d * (q + 1) \in Int /\ d * q2 \in Int
      BY <1>1, <1>2
    <3> QED
      BY <3>1, <3>2, <1>1, <1>2, <1>3
  <2>3. q + 1 < q2 => FALSE
    <3> SUFFICES ASSUME q + 1 < q2 PROVE FALSE
      BY Zenon
    <3>1. d * q2 >= d * (q + 1) + d
      BY <2>1, <1>1, <1>2
    <3>2. d * (q + 1) \in Int /\ d * q2 \in Int
      BY <1>1, <1>2
    <3> QED
      BY <3>1, <3>2, <1>1, <1>2, <1>3
  <2> QED
    BY <2>2, <2>3, <1>1, <1>2
<1>5. r2 = r
  <2>1. d * (q + 1) \in Int
    BY <1>1
  <2> QED
    BY <2>1, <1>1, <1>2, <1>3, <1>4
<1> QED
  BY <1>5, Zenon DEF r, r2

\* A query begins with no registers, at the first block of this device.
LEMMA BeginQuerySound ==
    ASSUME CacheInv, BeginQuery
    PROVE  CacheInv'
<1> USE DEF cacheVars, registerVars, tableVars
<1>1. call = Idle /\ call' = Running /\ owned = {} /\ cached = {} /\ call.held = NoPtr /\ call'.held = NoPtr
  BY Zenon DEF CacheInv, CallSound, BeginQuery, Idle, Running, At
<1>2. CacheShape'
  BY Zenon DEF CacheInv, CacheShape, UsedSizeExact, QueueMatchesMap, BeginQuery
<1>3. MemoryOwned'
  BY <1>1, SameMemory, Zenon DEF CacheInv, BeginQuery
<1>4. CallSound'
  BY <1>1, Zenon DEF CallSound, Running, At
<1>5. RegistersSound'
  BY <1>1, Zenon DEF RegistersSound, LockedColumnsStay, BeginQuery
<1>6. TableSound'
  <2>1. Device % DeviceCount = Device /\ Device \in Nat
    BY CacheAssumption
  <2> QED
    BY <2>1, Zenon DEF CacheInv, TableSound, BeginQuery
<1>7. CopiesCurrent'
  BY Zenon DEF CacheInv, CopiesCurrent, BeginQuery
<1> QED
  BY <1>2, <1>3, <1>4, <1>5, <1>6, <1>7, Zenon DEF CacheInv, BeginQuery

\* Jmp and Done: the registers of the block are freed.
LEMMA EndOfBlockSound ==
    ASSUME CacheInv, Jmp \/ Done
    PROVE  CacheInv'
<1> USE DEF cacheVars, queryVars, tableVars
<1>1. call = Running /\ call' \in {Idle, Running} /\ call.held = NoPtr /\ call'.held = NoPtr /\ owned' = {} /\ cached' = {}
  BY DEF Jmp, Done, CleanUp, Idle, Running, At
<1>2. CacheShape'
  BY Zenon DEF CacheInv, CacheShape, UsedSizeExact, QueueMatchesMap, Jmp, Done
<1>3. MemoryOwned'
  <2>1. lost' = lost \cup ({call.held} \ {NoPtr}) /\ CleanUp /\ UNCHANGED <<cacheMap, others>>
    BY <1>1, Zenon DEF Jmp, Done
  <2> QED
    BY <1>1, <2>1, CleanMemory, Zenon DEF CacheInv
<1>4. CallSound'
  <2>1. CASE call' = Idle
    BY <1>1, <2>1, Zenon DEF CallSound, Idle, At
  <2>2. CASE call' = Running
    BY <1>1, <2>2 DEF CallSound, Running, At
  <2> QED
    BY <1>1, <2>1, <2>2, Zenon
<1>5. RegistersSound'
  BY <1>1, Zenon DEF RegistersSound, LockedColumnsStay
<1>6. TableSound'
  <2>0. TableSound /\ call.place = "running"
    BY <1>1, Zenon DEF CacheInv, Running, At
  <2>1. currentBlockIndex % DeviceCount = Device /\ currentBlockIndex \in Nat
    BY <2>0, Zenon DEF TableSound
  <2>2. (currentBlockIndex + DeviceCount) % DeviceCount = Device /\ currentBlockIndex + DeviceCount \in Nat
    <3>1. DeviceCount \in Nat \ {0}
      BY CacheAssumption, Zenon
    <3>2. (currentBlockIndex + DeviceCount) % DeviceCount = currentBlockIndex % DeviceCount
      BY <2>1, <3>1, NextOfDevice, Zenon
    <3> QED
      BY <2>1, <3>1, <3>2
  <2>3. currentBlockIndex' \in {currentBlockIndex, currentBlockIndex + DeviceCount}
    BY Zenon DEF Jmp, Done
  <2>4. UNCHANGED <<lockList, span, host, writes, dropped>>
    BY Zenon DEF Jmp, Done
  <2> QED
    BY <2>0, <2>1, <2>2, <2>3, <2>4, Zenon DEF TableSound
<1>7. CopiesCurrent'
  BY Zenon DEF CacheInv, CopiesCurrent, Jmp, Done
<1>8. owned' \subseteq Ptr /\ lost' \subseteq Ptr /\ others' \subseteq Ptr
  BY <1>1, Zenon DEF CacheInv, Jmp, Done
<1> QED
  BY <1>2, <1>3, <1>4, <1>5, <1>6, <1>7, <1>8, Zenon DEF CacheInv

\* A hit moves the entry to the end of the queue.
LEMMA GetColumnHitSound ==
    ASSUME CacheInv, NEW column \in Columns, GetColumnHit(column)
    PROVE  CacheInv'
<1> USE DEF queryVars, tableVars
<1> DEFINE key == KeyFor(column)
<1>1. key \in DOMAIN cacheMap /\ lruQueue' = Append(QueueWithout({key}), key) /\ column \in lockList
  BY Zenon DEF GetColumnHit, LoadCol
<1>2. key[1] = column /\ key[2] = currentBlockIndex
  BY Zenon DEF KeyFor
<1>3. cached' = cached \cup {<<key, cacheMap[key].ptr>>} /\ UNCHANGED <<cacheMap, usedSize, call, owned, lost, others, heap>>
  BY Zenon DEF GetColumnHit
<1> HIDE DEF key
<1>4. CacheShape'
  <2>1. lruQueue \in Seq(Key) /\ Once(lruQueue) /\ DOMAIN cacheMap = {lruQueue[i] : i \in DOMAIN lruQueue} /\ key \in Key
    BY <1>1, Zenon DEF CacheInv, CacheShape, QueueMatchesMap, Once
  <2> DEFINE q == QueueWithout({key})
  <2>2. q \in Seq(Key) /\ Once(q) /\ {q[i] : i \in DOMAIN q} = DOMAIN cacheMap \ {key}
    BY <2>1, QueueWithoutFacts, Zenon
  <2>a. lruQueue' = Append(q, key)
    BY <1>1, Zenon
  <2> HIDE DEF q
  <2>3. lruQueue' \in Seq(Key) /\ DOMAIN lruQueue' = DOMAIN q \cup {Len(q) + 1} /\ DOMAIN q = 1 .. Len(q) /\ Len(q) \in Nat
        /\ (\A i \in DOMAIN q : lruQueue'[i] = q[i]) /\ lruQueue'[Len(q) + 1] = key
    BY <2>1, <2>2, <2>a
  <2>4. {lruQueue'[i] : i \in DOMAIN lruQueue'} = {q[i] : i \in DOMAIN q} \cup {key}
    BY <2>3
  <2>5. \A i \in DOMAIN q : q[i] # key
    BY <2>2, Zenon
  <2>6. Once(lruQueue')
    BY <2>2, <2>3, <2>5, Zenon DEF Once
  <2>7. QueueMatchesMap'
    <3>1. DOMAIN cacheMap' = {lruQueue'[i] : i \in DOMAIN lruQueue'}
      BY <1>1, <1>3, <2>2, <2>4, Zenon
    <3> QED
      BY <3>1, <2>6, Zenon DEF QueueMatchesMap, Once
  <2> QED
    BY <2>3, <2>7, <1>3, Zenon DEF CacheInv, CacheShape, UsedSizeExact
<1>5. MemoryOwned'
  BY <1>3, SameMemory, Zenon DEF CacheInv
<1>6. CallSound'
  BY <1>3, Zenon DEF CacheInv, CallSound, GetColumnHit, LoadCol, Running, At
<1>7. RegistersSound'
  <2>1. cacheMap[key].ptr \in Ptr /\ key \in Key
    BY <1>1, Zenon DEF CacheInv, CacheShape
  <2>2. UNCHANGED <<lockList, currentBlockIndex>>
    BY Zenon DEF GetColumnHit
  <2>3. cached' \subseteq Key \X Ptr /\ \A reg \in cached' : reg[1][1] \in lockList /\ reg[1][2] = currentBlockIndex
    BY <1>1, <1>2, <1>3, <2>1 DEF CacheInv, RegistersSound
  <2>4. LockedColumnsStay'
    BY <1>1, <1>3, <2>2 DEF CacheInv, RegistersSound, LockedColumnsStay, DigitsApart
  <2> QED
    BY <2>2, <2>3, <2>4, Zenon DEF RegistersSound
<1>8. TableSound' /\ CopiesCurrent'
  BY <1>3, Zenon DEF CacheInv, TableSound, CopiesCurrent, GetColumnHit
<1> QED
  BY <1>3, <1>4, <1>5, <1>6, <1>7, <1>8, Zenon DEF CacheInv

\* A step of a call that changes nothing but where the thread is, and leaves
\* it with the pointer it had.
LEMMA CallOnlySound ==
    ASSUME CacheInv, call.place # "idle", call'.place # "idle", call'.held = call.held, CallSound',
           UNCHANGED <<cacheVars, queryVars, registerVars, others, heap, tableVars>>
    PROVE  CacheInv'
<1> USE DEF cacheVars, queryVars, registerVars, tableVars
<1>1. CacheShape'
  BY Zenon DEF CacheInv, CacheShape, UsedSizeExact, QueueMatchesMap
<1>2. MemoryOwned'
  BY SameMemory, Zenon DEF CacheInv
<1>3. RegistersSound'
  BY Zenon DEF CacheInv, RegistersSound, LockedColumnsStay, DigitsApart
<1>4. TableSound' /\ CopiesCurrent'
  BY Zenon DEF CacheInv, TableSound, CopiesCurrent
<1> QED
  BY <1>1, <1>2, <1>3, <1>4, Zenon DEF CacheInv

\* The key of the running block is one of the cache's.
LEMMA KeyForFacts ==
    ASSUME CacheInv, NEW column \in Columns, LoadCol(column)
    PROVE  /\ KeyFor(column) \in Key /\ KeyFor(column)[1] = column /\ KeyFor(column)[2] = currentBlockIndex
           /\ call = Running /\ call.place = "running" /\ call.held = NoPtr /\ column \in lockList /\ currentBlockIndex < Len(host)
<1>1. call = Running /\ column \in lockList /\ currentBlockIndex < Len(host)
  BY Zenon DEF LoadCol
<1>2. currentBlockIndex \in 0 .. (MaxBlocks - 1)
  BY <1>1, CacheAssumption DEF CacheInv, TableSound
<1>3. span[1] \in Nat \ {0} /\ span[2] \in Nat
  BY CacheAssumption, Zenon DEF CacheInv, TableSound
<1> QED
  BY <1>1, <1>2, <1>3, Zenon DEF KeyFor, Key, Running, At

\* A block that is not cached: too large for the cache, or space is looked for.
LEMMA GetColumnMissSound ==
    ASSUME CacheInv, NEW column \in Columns, GetColumnMiss(column)
    PROVE  CacheInv'
<1> DEFINE key == KeyFor(column)
<1>1. LoadCol(column) /\ key \notin DOMAIN cacheMap
  BY Zenon DEF GetColumnMiss
<1>2. CASE Size(key) > MaxSize
  BY <1>2, ThrowSound, Zenon DEF GetColumnMiss
<1>3. CASE ~(Size(key) > MaxSize)
  <2>1. call' = At("find space", key, NoPtr) /\ UNCHANGED <<cacheVars, queryVars, registerVars, others, heap, tableVars>>
    BY <1>3, Zenon DEF GetColumnMiss
  <2>2. /\ key \in Key /\ key[1] = column /\ key[2] = currentBlockIndex
        /\ call.place = "running" /\ call.held = NoPtr /\ column \in lockList /\ currentBlockIndex < Len(host)
    BY <1>1, KeyForFacts, Zenon
  <2> HIDE DEF key
  <2>3. call'.place = "find space" /\ call'.held = NoPtr /\ call'.arg = key
    BY <2>1, Zenon DEF At
  <2>4. CallSound'
    BY <1>1, <2>1, <2>2, <2>3, Zenon DEF CallSound, cacheVars, queryVars, tableVars
  <2> QED
    BY <2>1, <2>2, <2>3, <2>4, CallOnlySound, Zenon
<1> QED
  BY <1>2, <1>3, Zenon

\* The check of the eviction loop: there is space in the cache for the key.
LEMMA GetColumnFoundSound ==
    ASSUME CacheInv, GetColumnFound
    PROVE  CacheInv'
<1>1. call.place = "find space" /\ HasFreeSpace(Size(call.arg)) /\ call' = At("allocate", call.arg, NoPtr)
      /\ UNCHANGED <<cacheVars, queryVars, registerVars, others, heap, tableVars>>
  BY Zenon DEF GetColumnFound
<1>2. call'.place = "allocate" /\ call'.held = NoPtr /\ call'.arg = call.arg /\ call.held = NoPtr
  BY <1>1, Zenon DEF At, CacheInv, CallSound
<1>3. CallSound'
  BY <1>1, <1>2, Zenon DEF CacheInv, CallSound, HasFreeSpace, Size, cacheVars, queryVars, tableVars
<1> QED
  BY <1>1, <1>2, <1>3, CallOnlySound, Zenon

\* A register is asked for.
LEMMA AllocateRegisterSound ==
    ASSUME CacheInv, NEW n \in RegisterSizes, NEW masked \in MaskedRegisters, AllocateRegister(n, masked)
    PROVE  CacheInv'
<1>1. call = Running /\ n \in Nat /\ call' = At(IF masked THEN "alloc data" ELSE "alloc", n, NoPtr)
      /\ UNCHANGED <<cacheVars, queryVars, registerVars, others, heap, tableVars>>
  BY CacheAssumption, Zenon DEF AllocateRegister
<1>2. call'.place \in {"alloc data", "alloc"} /\ call'.held = NoPtr /\ call'.arg = n
  BY <1>1, Zenon DEF At
<1>3. call.held = NoPtr /\ call.place = "running"
  BY <1>1, Zenon DEF Running, At
<1>4. CallSound'
  BY <1>1, <1>2, Zenon DEF CallSound
<1> QED
  BY <1>1, <1>2, <1>3, <1>4, CallOnlySound, Zenon

\* A new entry: its bytes are counted, it is queued, and it owns its memory.
LEMMA InsertShape ==
    ASSUME CacheShape, NEW key \in Key, key \notin DOMAIN cacheMap, NEW e \in [ptr: Ptr, size: Nat \ {0}, data: Nat],
           cacheMap' = With(cacheMap, key, e), usedSize' = usedSize + e.size, lruQueue' = Append(lruQueue, key),
           usedSize + e.size <= MaxSize
    PROVE  CacheShape'
<1> DEFINE D == DOMAIN cacheMap
           f == [k \in D |-> cacheMap[k].size]
           g == [k \in DOMAIN cacheMap' |-> cacheMap'[k].size]
<1>1. DOMAIN cacheMap' = D \cup {key} /\ cacheMap'[key] = e /\ \A k \in D : cacheMap'[k] = cacheMap[k]
  BY Zenon DEF With
<1>2. IsFiniteSet(D) /\ IsFiniteSet(D \cup {key})
  BY CacheFinite, FS_AddElement, Zenon
<1>3. usedSize = SumFunctionOnSet(f, D) /\ usedSize \in Nat /\ \A k \in D : cacheMap[k] \in [ptr: Ptr, size: Nat \ {0}, data: Nat]
  BY Zenon DEF CacheShape, UsedSizeExact, SumFunction
<1>4. DOMAIN g = D \cup {key} /\ g[key] = e.size /\ (\A k \in D : g[k] = f[k]) /\ (\A k \in D \cup {key} : g[k] \in Nat)
  BY <1>1, <1>3, Zenon
<1>5. SumFunction(g) = SumFunctionOnSet(g, D \cup {key})
  BY <1>4, Zenon DEF SumFunction
<1> HIDE DEF f, g
<1>6. SumFunctionOnSet(g, D \cup {key}) = g[key] + SumFunctionOnSet(g, (D \cup {key}) \ {key})
  BY <1>2, <1>4, SumTakesOut
<1>7. (D \cup {key}) \ {key} = D
  BY Zenon
<1>8. SumFunctionOnSet(g, D) = SumFunctionOnSet(f, D)
  BY <1>2, <1>4, SumSame
<1>9. usedSize' = SumFunction(g) /\ usedSize' \in Nat
  BY <1>3, <1>4, <1>5, <1>6, <1>7, <1>8
<1>10. UsedSizeExact'
  BY <1>9, Zenon DEF UsedSizeExact, g
<1>11. lruQueue' \in Seq(Key) /\ QueueMatchesMap'
  <2>1. lruQueue \in Seq(Key) /\ Once(lruQueue) /\ D = {lruQueue[i] : i \in DOMAIN lruQueue}
    BY Zenon DEF CacheShape, QueueMatchesMap, Once
  <2>2. lruQueue' \in Seq(Key) /\ DOMAIN lruQueue' = DOMAIN lruQueue \cup {Len(lruQueue) + 1}
        /\ DOMAIN lruQueue = 1 .. Len(lruQueue) /\ Len(lruQueue) \in Nat
        /\ (\A i \in DOMAIN lruQueue : lruQueue'[i] = lruQueue[i]) /\ lruQueue'[Len(lruQueue) + 1] = key
    BY <2>1
  <2>3. {lruQueue'[i] : i \in DOMAIN lruQueue'} = D \cup {key}
    BY <2>1, <2>2
  <2>4. \A i \in DOMAIN lruQueue : lruQueue[i] # key
    BY <2>1, Zenon
  <2>5. Once(lruQueue')
    BY <2>1, <2>2, <2>4 DEF Once
  <2> QED
    BY <2>2, <2>3, <2>5, <1>1, Zenon DEF QueueMatchesMap, Once
<1>12. DOMAIN cacheMap' \subseteq Key /\ \A k \in DOMAIN cacheMap' : cacheMap'[k] \in [ptr: Ptr, size: Nat \ {0}, data: Nat]
  BY <1>1, <1>3, Zenon DEF CacheShape
<1> QED
  BY <1>9, <1>10, <1>11, <1>12, Zenon DEF CacheShape

\* Memory granted to a new entry, and to nobody else.
LEMMA InsertMemory ==
    ASSUME MemoryOwned, call.held = NoPtr, call'.held = NoPtr,
           NEW n \in Nat \ {0}, NEW p \in Places(n), heap' = Allocated(n, p), NEW key, key \notin DOMAIN cacheMap,
           NEW data, cacheMap' = With(cacheMap, key, Entry(p, n, data)), UNCHANGED <<owned, lost, others>>
    PROVE  MemoryOwned'
<1>0. p \in Ptr /\ p \notin DOMAIN heap /\ Memory!Rounded(n) \in Nat \ {0} /\ p # NoPtr
  BY GrantIsFresh, NoPtrIsNone, Zenon
<1>1. DOMAIN heap' = DOMAIN heap \cup {p} /\ heap'[p] = Memory!Rounded(n) /\ \A q \in DOMAIN heap : heap'[q] = heap[q]
  BY <1>0, Zenon DEF Allocated, With
<1>2. /\ DOMAIN cacheMap' = DOMAIN cacheMap \cup {key} /\ cacheMap'[key].ptr = p /\ cacheMap'[key].size = n
      /\ \A k \in DOMAIN cacheMap : cacheMap'[k] = cacheMap[k]
  BY Zenon DEF With, Entry
<1>3. CachePtrs' = CachePtrs \cup {p}
  BY <1>2 DEF CachePtrs
<1>4. CachePtrs \subseteq DOMAIN heap /\ p \notin CachePtrs \cup owned \cup others \cup lost \cup {call.held}
  BY <1>0, Zenon DEF MemoryOwned, AllOwned
<1>5. \A k \in DOMAIN cacheMap : cacheMap[k].ptr \in DOMAIN heap /\ cacheMap[k].ptr # p
  BY <1>0, <1>4, Zenon DEF CachePtrs
<1>6. RegionsOfEntries'
  <2>0. RegionsOfEntries
    BY Zenon DEF MemoryOwned
  <2>1. ASSUME NEW k \in DOMAIN cacheMap' PROVE heap'[cacheMap'[k].ptr] = Memory!Rounded(cacheMap'[k].size)
    <3>1. CASE k = key
      BY <3>1, <1>1, <1>2, Zenon
    <3>2. CASE k \in DOMAIN cacheMap
      <4>1. heap[cacheMap[k].ptr] = Memory!Rounded(cacheMap[k].size)
        BY <3>2, <2>0, Zenon DEF RegionsOfEntries
      <4>2. cacheMap'[k] = cacheMap[k] /\ heap'[cacheMap[k].ptr] = heap[cacheMap[k].ptr]
        BY <3>2, <1>1, <1>2, <1>5, Zenon
      <4> QED
        BY <4>1, <4>2, Zenon
    <3> QED
      BY <3>1, <3>2, <1>2, Zenon
  <2>2. ASSUME NEW k \in DOMAIN cacheMap', NEW j \in DOMAIN cacheMap', cacheMap'[j].ptr = cacheMap'[k].ptr PROVE j = k
    <3>1. CASE k \in DOMAIN cacheMap /\ j \in DOMAIN cacheMap
      BY <3>1, <2>0, <2>2, <1>2, Zenon DEF RegionsOfEntries
    <3>2. CASE k = key \/ j = key
      BY <3>2, <2>2, <1>2, <1>5, Zenon
    <3> QED
      BY <3>1, <3>2, <1>2, Zenon
  <2> QED
    BY <2>1, <2>2, Zenon DEF RegionsOfEntries
<1>7. HeapTyped'
  BY <1>0, <1>1, Zenon DEF MemoryOwned, HeapTyped
<1>8. AllOwned'
  BY <1>1, <1>3, Zenon DEF MemoryOwned, AllOwned
<1>9. OneOwner'
  <2>1. OneOwner
    BY Zenon DEF MemoryOwned
  <2>2. (CachePtrs \cup {p}) \cap (owned \cup others \cup lost \cup {call.held}) = {}
    BY <2>1, <1>4, Zenon DEF OneOwner
  <2> QED
    BY <1>3, <2>1, <2>2, Zenon DEF OneOwner
<1> QED
  BY <1>6, <1>7, <1>8, <1>9, Zenon DEF MemoryOwned

\* The elements of a sequence.
LEMMA ElementsOfSequence ==
    ASSUME NEW S, NEW s \in Seq(S)
    PROVE  \A i \in DOMAIN s : s[i] \in S
OBVIOUS

\* A new entry: it holds what its block holds, and is the register's.
LEMMA GetColumnInsertSound ==
    ASSUME CacheInv, GetColumnInsert
    PROVE  CacheInv'
<1> USE DEF queryVars, tableVars
<1> DEFINE key == call.arg
           n == Size(key)
           data == host[currentBlockIndex + 1]
<1>1. /\ key \in Key /\ key \notin DOMAIN cacheMap /\ key[1] \in lockList
      /\ key[2] = currentBlockIndex /\ currentBlockIndex < Len(host)
      /\ usedSize + n <= MaxSize /\ call.held = NoPtr /\ call.place = "allocate"
  BY Zenon DEF CacheInv, CallSound, GetColumnInsert
<1>2. n \in Nat \ {0}
  BY <1>1, Zenon DEF Size, Key
<1>3. PICK p \in Places(n) :
        /\ heap' = Allocated(n, p)
        /\ cacheMap' = With(cacheMap, key, Entry(p, n, data))
        /\ cached' = cached \cup {<<key, p>>}
  BY Zenon DEF GetColumnInsert
<1>4. /\ usedSize' = usedSize + n /\ lruQueue' = Append(lruQueue, key) /\ call' = Running
      /\ UNCHANGED <<lockList, currentBlockIndex, span, owned, lost, others, host, writes, dropped>>
  BY Zenon DEF GetColumnInsert
<1> HIDE DEF key, n
<1>5. call'.held = NoPtr /\ call'.place = "running"
  BY <1>4, Zenon DEF Running, At
<1>6. TableSound /\ currentBlockIndex \in Nat /\ currentBlockIndex % DeviceCount = Device
  BY <1>1, Zenon DEF CacheInv, TableSound
<1>7. data \in Nat /\ data <= writes
  <2>1. host \in Seq(1 .. MaxWrites) /\ \A i \in DOMAIN host : host[i] <= writes
    BY <1>6, Zenon DEF TableSound
  <2>2. currentBlockIndex + 1 \in DOMAIN host
    BY <1>1, <1>6, <2>1
  <2>3. \A i \in DOMAIN host : host[i] \in 1 .. MaxWrites
    BY <2>1, ElementsOfSequence, Zenon
  <2>4. data \in 1 .. MaxWrites /\ data <= writes
    BY <2>1, <2>2, <2>3, Zenon
  <2> QED
    BY <2>4, CacheAssumption
<1>8. p \in Ptr
  BY <1>2, <1>3, GrantIsFresh, Zenon DEF CacheInv
<1>9. Entry(p, n, data) \in [ptr: Ptr, size: Nat \ {0}, data: Nat] /\ Entry(p, n, data).size = n
  BY <1>2, <1>7, <1>8, Zenon DEF Entry
<1>10. CacheShape'
  BY <1>1, <1>3, <1>4, <1>9, InsertShape, Zenon DEF CacheInv
<1>11. MemoryOwned'
  BY <1>1, <1>2, <1>3, <1>4, <1>5, InsertMemory, Zenon DEF CacheInv
<1>12. CallSound'
  BY <1>4, <1>5, NoPtrIsNone, Zenon DEF CallSound
<1>13. DOMAIN cacheMap' = DOMAIN cacheMap \cup {key} /\ cacheMap'[key] = Entry(p, n, data) /\ \A k \in DOMAIN cacheMap : cacheMap'[k] = cacheMap[k]
  BY <1>1, <1>3, Zenon DEF With
<1>14. RegistersSound'
  <2>0. RegistersSound
    BY Zenon DEF CacheInv
  <2>1. cached' \subseteq Key \X Ptr /\ \A reg \in cached' : reg[1][1] \in lockList /\ reg[1][2] = currentBlockIndex
    BY <2>0, <1>1, <1>3, <1>8 DEF RegistersSound
  <2>2. ASSUME NEW reg \in cached', DigitsApart(reg[1])
        PROVE  reg[1] \in DOMAIN cacheMap' /\ cacheMap'[reg[1]].ptr = reg[2]
    <3>1. CASE reg \in cached
      BY <3>1, <2>0, <2>2, <1>13, Zenon DEF RegistersSound, LockedColumnsStay
    <3>2. CASE reg = <<key, p>>
      <4>1. reg[1] = key /\ reg[2] = p
        BY <3>2, Zenon
      <4>2. cacheMap'[key].ptr = p /\ key \in DOMAIN cacheMap'
        BY <1>13 DEF Entry
      <4> QED
        BY <4>1, <4>2, Zenon
    <3> QED
      BY <3>1, <3>2, <1>3, Zenon
  <2> QED
    BY <2>1, <2>2, <1>4, Zenon DEF RegistersSound, LockedColumnsStay, DigitsApart
<1>15. TableSound'
  BY <1>4, <1>5, <1>6, Zenon DEF TableSound
<1>16. CopiesCurrent'
  <2>1. ASSUME NEW k \in DOMAIN cacheMap'
        PROVE  /\ k[2] % DeviceCount = Device
               /\ cacheMap'[k].data <= writes
               /\ cacheMap'[k].data > dropped => k[2] < Len(host) /\ cacheMap'[k].data = host[k[2] + 1]
    <3>1. CASE k \in DOMAIN cacheMap
      BY <3>1, <1>13, Zenon DEF CacheInv, CopiesCurrent
    <3>2. CASE k = key
      <4>1. cacheMap'[key].data = data
        BY <1>13 DEF Entry
      <4> HIDE DEF data
      <4>2. cacheMap'[key].data <= writes /\ key[2] % DeviceCount = Device /\ key[2] < Len(host)
        BY <4>1, <1>1, <1>6, <1>7, Zenon
      <4>3. data = host[key[2] + 1]
        BY <1>1, Zenon DEF data
      <4> QED
        BY <3>2, <4>1, <4>2, <4>3, Zenon
    <3> QED
      BY <3>1, <3>2, <1>13, Zenon
  <2> QED
    BY <2>1, <1>4, Zenon DEF CopiesCurrent
<1> QED
  BY <1>4, <1>10, <1>11, <1>12, <1>14, <1>15, <1>16, Zenon DEF CacheInv

\* Memory granted to a register: its data, which the call holds while it asks
\* for the mask, or the last of the two.
LEMMA AllocSucceedsSound ==
    ASSUME CacheInv, AllocSucceeds
    PROVE  CacheInv'
<1> USE DEF cacheVars, queryVars, tableVars
<1>1. call.place \in {"alloc", "alloc data"} /\ call.arg \in Nat /\ (call.place = "alloc data" => call.held = NoPtr)
      /\ call.held \in Ptr \cup {NoPtr}
  BY Zenon DEF CacheInv, CallSound, AllocSucceeds
<1>2. PICK p \in AllocPlaces :
        /\ heap' = Allocated(call.arg, p)
        /\ IF call.place = "alloc data"
           THEN call' = At("alloc", Unit, p) /\ owned' = owned
           ELSE call' = Running /\ owned' = owned \cup ({p, call.held} \ {NoPtr})
  BY Zenon DEF AllocSucceeds
<1>3. call.arg \in Nat \ {0} /\ p \in Places(call.arg)
  <2> DEFINE n == call.arg
  <2>1. p \in Places(n) /\ n > 0
    BY <1>2, Zenon DEF AllocPlaces
  <2>2. n \in Nat
    BY <1>1, Zenon
  <2> HIDE DEF n
  <2>3. n \in Nat \ {0} /\ p \in Places(n)
    BY <2>1, <2>2
  <2> QED
    BY <2>3, Zenon DEF n
<1>4. UNCHANGED <<cacheVars, queryVars, cached, lost, others, tableVars>>
  BY Zenon DEF AllocSucceeds
<1>5. p \in Ptr
  BY <1>3, GrantIsFresh, Zenon DEF CacheInv
<1>6. /\ call'.place \in {"alloc", "running"} /\ call'.held \in Ptr \cup {NoPtr}
      /\ call'.place = "alloc" => call'.arg = Unit
      /\ call'.place = "running" => call' = Running /\ call'.held = NoPtr
      /\ \/ owned' = owned \cup ({p, call.held} \ {NoPtr}) /\ call'.held = NoPtr
         \/ owned' = owned /\ call.held = NoPtr /\ call'.held = p
  <2>1. CASE call.place = "alloc data"
    <3>1. call' = At("alloc", Unit, p) /\ owned' = owned /\ call.held = NoPtr
      BY <2>1, <1>1, <1>2, Zenon
    <3> QED
      BY <3>1, <1>5, Zenon DEF At
  <2>2. CASE call.place = "alloc"
    <3>1. call' = Running /\ owned' = owned \cup ({p, call.held} \ {NoPtr})
      BY <2>2, <1>2, Zenon
    <3>2. call'.place = "running" /\ call'.held = NoPtr
      BY <3>1, Zenon DEF At, Running
    <3> QED
      BY <3>1, <3>2, Zenon
  <2> QED
    BY <2>1, <2>2, <1>1, Zenon
<1>7. owned' \subseteq Ptr
  BY <1>1, <1>5, <1>6, Zenon DEF CacheInv
<1>8. CacheShape'
  BY <1>4, Zenon DEF CacheInv, CacheShape, UsedSizeExact, QueueMatchesMap
<1>9. MemoryOwned'
  <2>1. MemoryOwned /\ lost \subseteq Ptr /\ others \subseteq Ptr /\ owned \subseteq Ptr
    BY Zenon DEF CacheInv
  <2> QED
    BY <2>1, <1>2, <1>3, <1>4, <1>6, GrantMemory, Zenon
<1>10. CallSound'
  <2>1. Unit \in Nat
    BY CacheAssumption, Zenon
  <2> QED
    BY <2>1, <1>6, Zenon DEF CallSound
<1>11. RegistersSound'
  BY <1>4, Zenon DEF CacheInv, RegistersSound, LockedColumnsStay, DigitsApart
<1>12. TableSound' /\ CopiesCurrent'
  BY <1>1, <1>4, <1>6, Zenon DEF CacheInv, TableSound, CopiesCurrent
<1> QED
  BY <1>4, <1>7, <1>8, <1>9, <1>10, <1>11, <1>12, Zenon DEF CacheInv

-----------------------------------------------------------------------------
(***************************************************************************)
(* Other queries, and statements that change the table.                    *)
(***************************************************************************)

\* Another query is granted memory, at any moment.
LEMMA OtherAllocatesSound ==
    ASSUME CacheInv, NEW n \in OtherSizes, OtherAllocates(n)
    PROVE  CacheInv'
<1> USE DEF cacheVars, queryVars, registerVars, tableVars
<1>1. n \in Nat \ {0}
  BY CacheAssumption, Zenon
<1>2. PICK p \in Places(n) : heap' = Allocated(n, p) /\ others' = others \cup {p}
  BY Zenon DEF OtherAllocates
<1>3. UNCHANGED <<cacheVars, queryVars, call, registerVars, tableVars>>
  BY Zenon DEF OtherAllocates
<1>4. p \in Ptr
  BY <1>1, <1>2, GrantIsFresh, Zenon DEF CacheInv
<1>5. CacheShape'
  BY <1>3, Zenon DEF CacheInv, CacheShape, UsedSizeExact, QueueMatchesMap
<1>6. MemoryOwned'
  <2>1. MemoryOwned /\ lost \subseteq Ptr /\ others \subseteq Ptr /\ owned \subseteq Ptr
    BY Zenon DEF CacheInv
  <2> QED
    BY <2>1, <1>1, <1>2, <1>3, GrantMemory, Zenon
<1>7. CallSound' /\ RegistersSound'
  BY <1>3, Zenon DEF CacheInv, CallSound, Size, RegistersSound, LockedColumnsStay, DigitsApart
<1>8. TableSound' /\ CopiesCurrent'
  BY <1>3, Zenon DEF CacheInv, TableSound, CopiesCurrent
<1> QED
  BY <1>2, <1>3, <1>4, <1>5, <1>6, <1>7, <1>8, Zenon DEF CacheInv

\* Another query gives memory back, at any moment.
LEMMA OtherFreesSound ==
    ASSUME CacheInv, OtherFrees
    PROVE  CacheInv'
<1> USE DEF cacheVars, queryVars, registerVars, tableVars
<1>1. PICK p \in others : heap' = Deallocated({p}) /\ others' = others \ {p}
  BY Zenon DEF OtherFrees
<1>2. UNCHANGED <<cacheVars, queryVars, call, registerVars, tableVars>>
  BY Zenon DEF OtherFrees
<1>3. CacheShape'
  BY <1>2, Zenon DEF CacheInv, CacheShape, UsedSizeExact, QueueMatchesMap
<1>4. MemoryOwned'
  <2>0. MemoryOwned
    BY Zenon DEF CacheInv
  <2>1. DOMAIN heap' = DOMAIN heap \ {p} /\ \A q \in DOMAIN heap \ {p} : heap'[q] = heap[q]
    BY <1>1, Zenon DEF Deallocated, Without
  <2>2. CachePtrs \subseteq DOMAIN heap \ {p} /\ p \notin owned \cup lost \cup {call.held}
    BY <1>1, <2>0, Zenon DEF MemoryOwned, AllOwned, OneOwner
  <2>3. RegionsOfEntries' /\ CachePtrs' = CachePtrs
    BY <1>2, <2>0, <2>1, <2>2, EntriesKeepRegions, Zenon
  <2>4. AllOwned'
    <3>1. DOMAIN heap' = CachePtrs \cup owned \cup (others \ {p}) \cup lost \cup ({call.held} \ {NoPtr})
      BY <2>0, <2>1, <2>2, Zenon DEF MemoryOwned, AllOwned
    <3> QED
      BY <1>1, <1>2, <2>3, <3>1, Zenon DEF AllOwned
  <2>5. HeapTyped'
    BY <2>0, <2>1, Zenon DEF MemoryOwned, HeapTyped
  <2>6. OneOwner'
    BY <1>1, <1>2, <2>0, <2>3, Zenon DEF MemoryOwned, OneOwner
  <2> QED
    BY <2>3, <2>4, <2>5, <2>6, Zenon DEF MemoryOwned
<1>5. CallSound' /\ RegistersSound'
  BY <1>2, Zenon DEF CacheInv, CallSound, Size, RegistersSound, LockedColumnsStay, DigitsApart
<1>6. TableSound' /\ CopiesCurrent'
  BY <1>2, Zenon DEF CacheInv, TableSound, CopiesCurrent
<1> QED
  BY <1>1, <1>2, <1>3, <1>4, <1>5, <1>6, Zenon DEF CacheInv

\* The block of a key, and the content of an entry, are numbers.
LEMMA KeysAreKeys ==
    ASSUME CacheShape, NEW key \in DOMAIN cacheMap
    PROVE  key[2] \in Nat /\ cacheMap[key].data \in Nat
<1>1. key \in Key /\ cacheMap[key] \in [ptr: Ptr, size: Nat \ {0}, data: Nat]
  BY Zenon DEF CacheShape
<1>2. key[2] \in Nat
  BY <1>1, CacheAssumption DEF Key
<1>3. cacheMap[key].data \in Nat
  BY <1>1, Zenon
<1> QED
  BY <1>2, <1>3, Zenon

\* Clearing from a block on leaves no copy of it or of a later block that the
\* table has, on the device that processes it.
LEMMA ClearedFacts ==
    ASSUME CacheInv, NEW from \in Nat
    PROVE  /\ ClearCachedBlocks(from) \in SUBSET (DOMAIN cacheMap)
           /\ \A key \in DOMAIN cacheMap \ ClearCachedBlocks(from) : ~(key[2] \in from .. (Len(host) - 1))
<1>1. \A key \in DOMAIN cacheMap : key[2] \in Nat /\ key[2] % DeviceCount = Device
  <2>1. \A key \in DOMAIN cacheMap : key[2] \in Nat
    BY KeysAreKeys, Zenon DEF CacheInv
  <2> QED
    BY <2>1, Zenon DEF CacheInv, CopiesCurrent
<1>2. \A key \in DOMAIN cacheMap : IsPrefix(Digits[key[2]], Digits[key[2]])
  <2> SUFFICES ASSUME NEW key \in DOMAIN cacheMap PROVE IsPrefix(Digits[key[2]], Digits[key[2]])
    BY Zenon
  <2>1. Digits[key[2]] \in Seq(Nat)
    BY <1>1, DigitsFacts, Zenon
  <2> QED
    BY <2>1 DEF IsPrefix
<1>3. ASSUME NEW key \in DOMAIN cacheMap, key[2] \in from .. (Len(host) - 1)
      PROVE  key \in ClearCachedBlocks(from)
  BY <1>1, <1>2, <1>3 DEF ClearCachedBlocks, Cleared
<1>4. ClearCachedBlocks(from) \in SUBSET (DOMAIN cacheMap)
  BY Zenon DEF ClearCachedBlocks, Cleared
<1> QED
  BY <1>3, <1>4, Zenon

\* What an INSERT that drops the copies S makes of the table: it keeps the
\* blocks of the copies that stay.
TableGrows(S) ==
    /\ host' \in Seq(1 .. MaxWrites) /\ Len(host') <= MaxBlocks /\ Len(host) <= Len(host')
    /\ writes' \in writes .. MaxWrites /\ dropped' = dropped
    /\ \A i \in DOMAIN host' : host'[i] <= writes'
    /\ \A key \in DOMAIN cacheMap \ S : key[2] < Len(host) => host'[key[2] + 1] = host[key[2] + 1]

\* An INSERT, while no query is running.
LEMMA InsertSound ==
    ASSUME CacheInv, NEW S \in SUBSET (DOMAIN cacheMap), Drop(S), call = Idle, TableGrows(S),
           UNCHANGED <<queryVars, call, registerVars, others>>
    PROVE  CacheInv'
<1> USE DEF queryVars, registerVars
<1>0. /\ cached = {} /\ call.place = "idle" /\ writes \in Nat /\ dropped \in 0 .. writes
      /\ Len(host) \in Nat /\ MaxWrites \in Nat
  <2>1. cached = {} /\ call.place = "idle"
    BY Zenon DEF CacheInv, CallSound, Idle, At
  <2>2. TableSound
    BY Zenon DEF CacheInv
  <2> QED
    BY <2>1, <2>2, CacheAssumption DEF TableSound
<1>1. CacheShape' /\ MemoryOwned'
  BY DropShape, DropMemory, Zenon DEF CacheInv
<1>2. DOMAIN cacheMap' = DOMAIN cacheMap \ S /\ \A key \in DOMAIN cacheMap \ S : cacheMap'[key] = cacheMap[key]
  BY Zenon DEF Drop, Without
<1>3. CallSound'
  BY <1>0, Zenon DEF CacheInv, CallSound
<1>4. RegistersSound'
  BY <1>0, Zenon DEF RegistersSound, LockedColumnsStay
<1>5. writes' \in Nat /\ writes <= writes' /\ writes' <= MaxWrites /\ dropped' = dropped
  <2>1. writes' \in writes .. MaxWrites /\ dropped' = dropped
    BY Zenon DEF TableGrows
  <2> QED
    BY <1>0, <2>1
<1>6. TableSound'
  <2>1. dropped' \in 0 .. writes' /\ writes' \in 0 .. MaxWrites
    BY <1>0, <1>5
  <2>2. lockList \subseteq Columns /\ currentBlockIndex \in Nat /\ span \in Spans
    BY Zenon DEF CacheInv, TableSound
  <2>3. host' \in Seq(1 .. MaxWrites) /\ Len(host') <= MaxBlocks /\ \A i \in DOMAIN host' : host'[i] <= writes'
    BY Zenon DEF TableGrows
  <2> QED
    BY <1>0, <2>1, <2>2, <2>3, Zenon DEF TableSound
<1>7. CopiesCurrent'
  <2>1. ASSUME NEW key \in DOMAIN cacheMap \ S
        PROVE  /\ key[2] % DeviceCount = Device
               /\ cacheMap[key].data <= writes'
               /\ cacheMap[key].data > dropped => key[2] < Len(host') /\ cacheMap[key].data = host'[key[2] + 1]
    <3> DEFINE b == key[2]
               data == cacheMap[key].data
    <3>1. /\ b % DeviceCount = Device /\ data <= writes
          /\ data > dropped => b < Len(host) /\ data = host[b + 1]
      BY Zenon DEF CacheInv, CopiesCurrent
    <3>2. b \in Nat /\ data \in Nat
      BY KeysAreKeys, Zenon DEF CacheInv
    <3>3. Len(host') \in Nat /\ Len(host) <= Len(host') /\ (b < Len(host) => host'[b + 1] = host[b + 1])
      <4>1. host' \in Seq(1 .. MaxWrites) /\ Len(host) <= Len(host') /\ (b < Len(host) => host'[b + 1] = host[b + 1])
        BY Zenon DEF TableGrows
      <4> QED
        BY <4>1
    <3> HIDE DEF b, data
    <3>4. data <= writes' /\ (data > dropped => b < Len(host') /\ data = host'[b + 1])
      BY <3>1, <3>2, <3>3, <1>0, <1>5
    <3> QED
      BY <3>1, <3>4, Zenon DEF b, data
  <2> QED
    BY <2>1, <1>2, <1>5, Zenon DEF CopiesCurrent
<1> QED
  BY <1>1, <1>3, <1>4, <1>6, <1>7, Zenon DEF CacheInv

\* A sequence over a set is one over a larger set.
LEMMA SequenceOver ==
    ASSUME NEW S, NEW T, S \subseteq T, NEW s \in Seq(S)
    PROVE  s \in Seq(T)
<1>1. s \in [1 .. Len(s) -> S] /\ Len(s) \in Nat
  OBVIOUS
<1>2. s \in [1 .. Len(s) -> T]
  BY <1>1, Zenon
<1> QED
  BY <1>1, <1>2

\* Two sequences, one after the other.
LEMMA Joined ==
    ASSUME NEW S, NEW s \in Seq(S), NEW t \in Seq(S)
    PROVE  s \o t \in Seq(S) /\ Len(s \o t) = Len(s) + Len(t)
OBVIOUS

\* Part of a sequence.
LEMMA PartOfSequence ==
    ASSUME NEW S, NEW s, NEW m \in Int, NEW n \in Int, \A i \in m .. n : s[i] \in S
    PROVE  /\ SubSeq(s, m, n) \in Seq(S)
           /\ Len(SubSeq(s, m, n)) = IF m <= n THEN n - m + 1 ELSE 0
OBVIOUS

\* The blocks of the table after an INSERT.
LEMMA HostFacts ==
    ASSUME TableSound
    PROVE  /\ Len(host) \in Nat /\ Len(host) <= MaxBlocks /\ DOMAIN host = 1 .. Len(host)
           /\ \A i \in DOMAIN host : host[i] \in 1 .. MaxWrites /\ host[i] <= writes
           /\ writes \in Nat /\ MaxWrites \in Nat /\ MaxBlocks \in Nat
<1>1. host \in Seq(1 .. MaxWrites) /\ Len(host) <= MaxBlocks /\ \A i \in DOMAIN host : host[i] <= writes
  BY Zenon DEF TableSound
<1>2. \A i \in DOMAIN host : host[i] \in 1 .. MaxWrites
  BY <1>1, ElementsOfSequence, Zenon
<1>3. writes \in Nat /\ MaxWrites \in Nat /\ MaxBlocks \in Nat
  BY CacheAssumption DEF TableSound
<1>4. Len(host) \in Nat /\ DOMAIN host = 1 .. Len(host)
  BY <1>1
<1> QED
  BY <1>1, <1>2, <1>3, <1>4, Zenon

\* A new block at the end, which keeps the others.
LEMMA AppendedFacts ==
    ASSUME TableSound, writes + 1 <= MaxWrites
    PROVE  /\ Appended \in Seq(1 .. MaxWrites) /\ Len(Appended) = Len(host) + 1
           /\ \A i \in DOMAIN Appended : Appended[i] <= writes + 1
           /\ \A i \in DOMAIN host : Appended[i] = host[i]
<1>1. host \in Seq(1 .. MaxWrites) /\ writes + 1 \in 1 .. MaxWrites
  BY HostFacts DEF TableSound
<1>2. Appended \in Seq(1 .. MaxWrites) /\ Len(Appended) = Len(host) + 1 /\ DOMAIN Appended = 1 .. (Len(host) + 1)
  BY <1>1 DEF Appended
<1>3. \A i \in DOMAIN host : Appended[i] = host[i]
  BY <1>1 DEF Appended
<1>4. Appended[Len(host) + 1] = writes + 1
  BY <1>1 DEF Appended
<1>5. ASSUME NEW i \in DOMAIN Appended PROVE Appended[i] <= writes + 1
  <2>1. CASE i = Len(host) + 1
    BY <2>1, <1>1, <1>4
  <2>2. CASE i # Len(host) + 1
    <3>1. i \in DOMAIN host
      BY <2>2, <1>2, HostFacts
    <3>2. host[i] \in Nat /\ host[i] <= writes
      BY <3>1, HostFacts
    <3> QED
      BY <3>1, <3>2, <1>3, HostFacts
  <2> QED
    BY <2>1, <2>2, Zenon
<1> QED
  BY <1>2, <1>3, <1>5, Zenon

\* A new row in block b, which keeps the others.
LEMMA WrittenFacts ==
    ASSUME TableSound, writes + 1 <= MaxWrites, NEW b \in DOMAIN host
    PROVE  /\ Written(b) \in Seq(1 .. MaxWrites) /\ Len(Written(b)) = Len(host)
           /\ \A i \in DOMAIN Written(b) : Written(b)[i] <= writes + 1
           /\ \A i \in DOMAIN host : i # b => Written(b)[i] = host[i]
<1>1. host \in Seq(1 .. MaxWrites) /\ writes + 1 \in 1 .. MaxWrites
  BY HostFacts DEF TableSound
<1>2. Written(b) \in Seq(1 .. MaxWrites) /\ Len(Written(b)) = Len(host) /\ DOMAIN Written(b) = DOMAIN host
  BY <1>1 DEF Written
<1>3. \A i \in DOMAIN host : Written(b)[i] = IF i = b THEN writes + 1 ELSE host[i]
  BY <1>1, Zenon DEF Written
<1>4. ASSUME NEW i \in DOMAIN host PROVE Written(b)[i] <= writes + 1
  BY <1>3, HostFacts
<1> QED
  BY <1>2, <1>3, <1>4, Zenon

\* Block b split in two.
LEMMA SplitFacts ==
    ASSUME TableSound, writes + 2 <= MaxWrites, NEW b \in DOMAIN host
    PROVE  /\ Split(b) \in Seq(1 .. MaxWrites) /\ Len(Split(b)) = Len(host) + 1
           /\ \A i \in DOMAIN Split(b) : Split(b)[i] <= writes + 2
<1> DEFINE V == 1 .. (writes + 2)
           front == SubSeq(host, 1, b - 1)
           new == <<writes + 1, writes + 2>>
           back == SubSeq(host, b + 1, Len(host))
<1>0. /\ host \in Seq(1 .. MaxWrites) /\ b \in 1 .. Len(host) /\ Len(host) \in Nat
      /\ DOMAIN host = 1 .. Len(host) /\ writes \in Nat
  BY HostFacts, Zenon DEF TableSound
<1>1. \A i \in 1 .. Len(host) : host[i] \in V
  BY HostFacts
<1>2. V \subseteq 1 .. MaxWrites /\ \A v \in V : v <= writes + 2
  BY HostFacts
<1>3. new \in Seq(V) /\ Len(new) = 2
  BY <1>0
<1> HIDE DEF V
<1>4. front \in Seq(V) /\ Len(front) = b - 1
  <2>1. \A i \in 1 .. (b - 1) : host[i] \in V
    BY <1>0, <1>1
  <2>2. b - 1 \in Int /\ 1 \in Int
    BY <1>0
  <2>3. front \in Seq(V) /\ Len(front) = IF 1 <= b - 1 THEN b - 1 - 1 + 1 ELSE 0
    BY <2>1, <2>2, PartOfSequence
  <2> HIDE DEF front
  <2> QED
    BY <2>3, <1>0
<1>5. back \in Seq(V) /\ Len(back) = Len(host) - b
  <2>1. \A i \in (b + 1) .. Len(host) : host[i] \in V
    BY <1>0, <1>1
  <2>2. b + 1 \in Int /\ Len(host) \in Int
    BY <1>0
  <2>3. back \in Seq(V) /\ Len(back) = IF b + 1 <= Len(host) THEN Len(host) - (b + 1) + 1 ELSE 0
    BY <2>1, <2>2, PartOfSequence
  <2> HIDE DEF back
  <2> QED
    BY <2>3, <1>0
<1>6. Split(b) = (front \o new) \o back
  BY Zenon DEF Split
<1> HIDE DEF front, new, back
<1>7. front \o new \in Seq(V) /\ Len(front \o new) = b + 1
  <2>1. front \o new \in Seq(V) /\ Len(front \o new) = Len(front) + Len(new)
    BY <1>3, <1>4, Joined, Zenon
  <2> QED
    BY <2>1, <1>0, <1>3, <1>4
<1>8. (front \o new) \o back \in Seq(V) /\ Len((front \o new) \o back) = Len(host) + 1
  <2> DEFINE s == front \o new
  <2>1. s \in Seq(V) /\ Len(s) = b + 1
    BY <1>7, Zenon
  <2> HIDE DEF s
  <2>2. s \o back \in Seq(V) /\ Len(s \o back) = Len(s) + Len(back)
    BY <2>1, <1>5, Joined, Zenon
  <2>3. Len(s \o back) = Len(host) + 1
    BY <2>1, <2>2, <1>0, <1>5
  <2> QED
    BY <2>2, <2>3, Zenon DEF s
<1>9. Split(b) \in Seq(V) /\ Len(Split(b)) = Len(host) + 1
  BY <1>6, <1>8, Zenon
<1>10. \A i \in DOMAIN Split(b) : Split(b)[i] \in V
  BY <1>9, ElementsOfSequence, Zenon
<1>11. Split(b) \in Seq(1 .. MaxWrites)
  BY <1>2, <1>9, SequenceOver, Zenon
<1> QED
  BY <1>2, <1>9, <1>10, <1>11, Zenon

\* A row appended to the last block, or to a new one: the copies of the block
\* that may change are dropped first.
LEMMA InsertIntoSound ==
    ASSUME CacheInv, InsertInto
    PROVE  CacheInv'
<1> DEFINE from == IF host = <<>> THEN 0 ELSE Len(host) - 1
           S == ClearCachedBlocks(from)
<1>1. TableSound /\ DOMAIN cacheMap \subseteq Key
  BY Zenon DEF CacheInv, CacheShape
<1>2. /\ call = Idle /\ writes + 1 <= MaxWrites /\ Drop(S) /\ writes' = writes + 1
      /\ UNCHANGED <<queryVars, call, registerVars, others, dropped>>
      /\ \/ host' = Appended /\ Len(host) < MaxBlocks
         \/ host # <<>> /\ host' = Written(Len(host))
  BY Zenon DEF InsertInto
<1>3. from \in Nat /\ (host # <<>> => Len(host) \in DOMAIN host /\ from = Len(host) - 1)
  BY <1>1 DEF TableSound
<1>4. S \in SUBSET (DOMAIN cacheMap) /\ \A key \in DOMAIN cacheMap \ S : ~(key[2] \in from .. (Len(host) - 1))
  BY <1>3, ClearedFacts, Zenon
<1> HIDE DEF S, from
<1>5. \A key \in DOMAIN cacheMap : key[2] \in Nat
  BY <1>1 DEF Key
<1>6. writes' \in writes .. MaxWrites
  BY <1>1, <1>2, HostFacts
<1>7. CASE host' = Appended /\ Len(host) < MaxBlocks
  <2>1. host' \in Seq(1 .. MaxWrites) /\ Len(host') <= MaxBlocks /\ Len(host) <= Len(host') /\ \A i \in DOMAIN host' : host'[i] <= writes'
    BY <1>1, <1>2, <1>7, HostFacts, AppendedFacts
  <2>2. \A key \in DOMAIN cacheMap \ S : key[2] < Len(host) => host'[key[2] + 1] = host[key[2] + 1]
    <3>1. \A n \in Nat : n < Len(host) => n + 1 \in DOMAIN host
      BY <1>1, HostFacts
    <3> QED
      BY <3>1, <1>1, <1>2, <1>5, <1>7, AppendedFacts, Zenon
  <2>3. TableGrows(S)
    BY <1>2, <1>6, <2>1, <2>2, Zenon DEF TableGrows
  <2> QED
    BY <1>2, <1>4, <2>3, InsertSound, Zenon
<1>8. CASE host # <<>> /\ host' = Written(Len(host))
  <2>1. host' \in Seq(1 .. MaxWrites) /\ Len(host') <= MaxBlocks /\ Len(host) <= Len(host') /\ \A i \in DOMAIN host' : host'[i] <= writes'
    BY <1>1, <1>2, <1>3, <1>8, HostFacts, WrittenFacts
  <2>2. ASSUME NEW key \in DOMAIN cacheMap \ S, key[2] < Len(host) PROVE host'[key[2] + 1] = host[key[2] + 1]
    <3>1. ~(key[2] \in from .. (Len(host) - 1)) /\ key[2] \in Nat /\ from = Len(host) - 1 /\ Len(host) \in Nat
      BY <1>1, <1>3, <1>4, <1>5, <1>8, HostFacts, Zenon
    <3>2. key[2] + 1 \in 1 .. Len(host) /\ key[2] + 1 # Len(host)
      BY <3>1, <2>2
    <3> QED
      BY <3>2, <1>1, <1>2, <1>3, <1>8, HostFacts, WrittenFacts, Zenon
  <2>3. TableGrows(S)
    BY <1>2, <1>6, <2>1, <2>2, Zenon DEF TableGrows
  <2> QED
    BY <1>2, <1>4, <2>3, InsertSound, Zenon
<1> QED
  BY <1>2, <1>7, <1>8, Zenon

\* A row put anywhere, which may move every later block: all copies go first.
LEMMA InsertIntoClusteredSound ==
    ASSUME CacheInv, InsertIntoClustered
    PROVE  CacheInv'
<1> DEFINE S == ClearCachedBlocks(0)
<1>1. TableSound /\ DOMAIN cacheMap \subseteq Key
  BY Zenon DEF CacheInv, CacheShape
<1>2. /\ call = Idle /\ writes + 2 <= MaxWrites /\ Drop(S) /\ writes' = writes + 2
      /\ UNCHANGED <<queryVars, call, registerVars, others, dropped>>
      /\ \/ host' = Appended /\ host = <<>>
         \/ \E b \in DOMAIN host : host' = Written(b) \/ (Len(host) < MaxBlocks /\ host' = Split(b))
  BY Zenon DEF InsertIntoClustered
<1>3. S \in SUBSET (DOMAIN cacheMap) /\ \A key \in DOMAIN cacheMap \ S : ~(key[2] \in 0 .. (Len(host) - 1))
  BY ClearedFacts, Zenon
<1> HIDE DEF S
<1>4. \A key \in DOMAIN cacheMap : key[2] \in Nat
  BY <1>1 DEF Key
<1>5. writes' \in writes .. MaxWrites /\ writes + 1 <= MaxWrites /\ writes' = writes + 2 /\ writes \in Nat
  BY <1>1, <1>2, HostFacts
<1>6. \A key \in DOMAIN cacheMap \ S : key[2] < Len(host) => host'[key[2] + 1] = host[key[2] + 1]
  BY <1>1, <1>3, <1>4, HostFacts
<1>7. host' \in Seq(1 .. MaxWrites) /\ Len(host') <= MaxBlocks /\ Len(host) <= Len(host') /\ \A i \in DOMAIN host' : host'[i] <= writes'
  <2>0. \A h \in Seq(1 .. MaxWrites) : (\A i \in DOMAIN h : h[i] <= writes + 1) => \A i \in DOMAIN h : h[i] <= writes + 2
    <3> SUFFICES ASSUME NEW h \in Seq(1 .. MaxWrites), NEW i \in DOMAIN h, h[i] <= writes + 1 PROVE h[i] <= writes + 2
      BY Zenon
    <3>1. h[i] \in 1 .. MaxWrites
      BY ElementsOfSequence, Zenon
    <3> QED
      BY <3>1, <1>5
  <2>1. CASE host' = Appended /\ host = <<>>
    <3>1. host' \in Seq(1 .. MaxWrites) /\ Len(host') = Len(host) + 1 /\ \A i \in DOMAIN host' : host'[i] <= writes + 1
      BY <1>1, <1>5, <2>1, AppendedFacts, Zenon
    <3>2. Len(host) = 0 /\ MaxBlocks >= 1
      BY <2>1, CacheAssumption
    <3> QED
      BY <3>1, <3>2, <1>1, <1>5, <2>0, HostFacts
  <2>2. ASSUME NEW b \in DOMAIN host, host' = Written(b)
        PROVE  host' \in Seq(1 .. MaxWrites) /\ Len(host') <= MaxBlocks /\ Len(host) <= Len(host') /\ \A i \in DOMAIN host' : host'[i] <= writes'
    <3>1. host' \in Seq(1 .. MaxWrites) /\ Len(host') = Len(host) /\ \A i \in DOMAIN host' : host'[i] <= writes + 1
      BY <1>1, <1>5, <2>2, WrittenFacts, Zenon
    <3> QED
      BY <3>1, <1>1, <1>5, <2>0, HostFacts
  <2>3. ASSUME NEW b \in DOMAIN host, Len(host) < MaxBlocks, host' = Split(b)
        PROVE  host' \in Seq(1 .. MaxWrites) /\ Len(host') <= MaxBlocks /\ Len(host) <= Len(host') /\ \A i \in DOMAIN host' : host'[i] <= writes'
    <3>1. host' \in Seq(1 .. MaxWrites) /\ Len(host') = Len(host) + 1 /\ \A i \in DOMAIN host' : host'[i] <= writes + 2
      BY <1>1, <1>2, <2>3, SplitFacts, Zenon
    <3> QED
      BY <3>1, <1>1, <1>5, <2>3, HostFacts
  <2> QED
    BY <1>2, <2>1, <2>2, <2>3, Zenon
<1>8. TableGrows(S)
  BY <1>2, <1>5, <1>6, <1>7, Zenon DEF TableGrows
<1> QED
  BY <1>2, <1>3, <1>8, InsertSound, Zenon

\* DROP TABLE keeps the copies, which from now on count as dropped.
LEMMA DropTableSound ==
    ASSUME CacheInv, DropTable
    PROVE  CacheInv'
<1> USE DEF cacheVars, queryVars, registerVars
<1>1. /\ call = Idle /\ host' = <<>> /\ dropped' = writes
      /\ UNCHANGED <<cacheVars, queryVars, call, registerVars, others, heap, writes>>
  BY Zenon DEF DropTable
<1>2. cached = {} /\ call.place = "idle"
  BY <1>1, Zenon DEF CacheInv, CallSound, Idle, At
<1>3. CacheShape' /\ MemoryOwned'
  <2>1. CacheShape'
    BY <1>1, Zenon DEF CacheInv, CacheShape, UsedSizeExact, QueueMatchesMap
  <2> QED
    BY <1>1, <2>1, SameMemory, Zenon DEF CacheInv
<1>4. CallSound' /\ RegistersSound'
  BY <1>1, <1>2, Zenon DEF CacheInv, CallSound, RegistersSound, LockedColumnsStay
<1>5. TableSound'
  <2>1. host' \in Seq(1 .. MaxWrites) /\ Len(host') <= MaxBlocks /\ DOMAIN host' = {}
    BY <1>1, CacheAssumption
  <2>2. dropped' \in 0 .. writes'
    BY <1>1, CacheAssumption DEF CacheInv, TableSound
  <2> QED
    BY <1>1, <1>2, <2>1, <2>2, Zenon DEF CacheInv, TableSound
<1>6. CopiesCurrent'
  <2>1. \A key \in DOMAIN cacheMap : cacheMap[key].data \in Nat /\ cacheMap[key].data <= writes /\ key[2] % DeviceCount = Device
    BY Zenon DEF CacheInv, CacheShape, CopiesCurrent
  <2>2. writes \in Nat
    BY CacheAssumption DEF CacheInv, TableSound
  <2>3. \A key \in DOMAIN cacheMap : ~(cacheMap[key].data > writes)
    BY <2>1, <2>2
  <2> QED
    BY <1>1, <2>1, <2>3, Zenon DEF CopiesCurrent
<1> QED
  BY <1>1, <1>3, <1>4, <1>5, <1>6, Zenon DEF CacheInv

\* The steps of a call of GetColumn or alloc that make room, or give up.
LEMMA CallStepSound ==
    ASSUME CacheInv, CallStep
    PROVE  CacheInv'
<1>1. CASE GetColumnEvict
  <2>1. CASE Evictable = {}
    BY <1>1, <2>1, ThrowSound, Zenon DEF GetColumnEvict
  <2>2. CASE Evictable # {}
    BY <1>1, <2>2, EvictSound, Zenon DEF GetColumnEvict
  <2> QED
    BY <2>1, <2>2, Zenon
<1>2. CASE AllocEvicts
  <2>1. CASE Evictable = {}
    BY <1>2, <2>1, ThrowSound, Zenon DEF AllocEvicts
  <2>2. CASE Evictable # {}
    BY <1>2, <2>2, EvictSound, Zenon DEF AllocEvicts
  <2> QED
    BY <2>1, <2>2, Zenon
<1>3. CASE GetColumnTooLate
  BY <1>3, ThrowSound, Zenon DEF GetColumnTooLate
<1> QED
  BY <1>1, <1>2, <1>3, GetColumnFoundSound, GetColumnInsertSound, AllocSucceedsSound, Zenon DEF CallStep

-----------------------------------------------------------------------------
(***************************************************************************)
(* The theorems.                                                           *)
(***************************************************************************)

\* Every step of the dispatcher thread, of another query and of a statement
\* keeps the invariant.
LEMMA CacheInvInductive == CacheInv /\ [Next]_vars => CacheInv'
<1> SUFFICES ASSUME CacheInv, [Next]_vars PROVE CacheInv'
  BY Zenon
<1>1. CASE BeginQuery
  BY <1>1, BeginQuerySound, Zenon
<1>2. CASE Jmp \/ Done
  BY <1>2, EndOfBlockSound, Zenon
<1>3. CASE \E column \in Columns : GetColumnHit(column) \/ GetColumnMiss(column)
  BY <1>3, GetColumnHitSound, GetColumnMissSound, Zenon
<1>4. CASE \E n \in RegisterSizes, masked \in MaskedRegisters : AllocateRegister(n, masked)
  BY <1>4, AllocateRegisterSound, Zenon
<1>5. CASE CallStep
  BY <1>5, CallStepSound, Zenon
<1>6. CASE \E n \in OtherSizes : OtherAllocates(n)
  BY <1>6, OtherAllocatesSound, Zenon
<1>7. CASE OtherFrees
  BY <1>7, OtherFreesSound, Zenon
<1>8. CASE InsertInto \/ InsertIntoClustered \/ DropTable
  BY <1>8, InsertIntoSound, InsertIntoClusteredSound, DropTableSound, Zenon
<1>9. CASE UNCHANGED vars
  <2>1. UNCHANGED <<cacheMap, lruQueue, usedSize, lockList, currentBlockIndex, span, call, cached, owned, lost, others,
                    heap, host, writes, dropped>>
    BY <1>9, Zenon DEF vars, cacheVars, queryVars, registerVars, tableVars
  <2>2. CacheShape' /\ MemoryOwned'
    <3>1. CacheShape'
      BY <2>1, Zenon DEF CacheInv, CacheShape, UsedSizeExact, QueueMatchesMap
    <3> QED
      BY <2>1, <3>1, SameMemory, Zenon DEF CacheInv
  <2>3. CallSound' /\ RegistersSound'
    BY <2>1, Zenon DEF CacheInv, CallSound, RegistersSound, LockedColumnsStay, DigitsApart
  <2>4. TableSound' /\ CopiesCurrent'
    BY <2>1, Zenon DEF CacheInv, TableSound, CopiesCurrent
  <2> QED
    BY <2>1, <2>2, <2>3, <2>4, Zenon DEF CacheInv
<1> QED
  BY <1>1, <1>2, <1>3, <1>4, <1>5, <1>6, <1>7, <1>8, <1>9, Zenon DEF Next

\* However large the cache, whatever the columns, spans, registers and other
\* queries: map, queue and used size agree, memory has one owner at any time,
\* and a query that has ended, in whatever way, holds none.
THEOREM CacheStaysConsistent == Spec => []CacheConsistent
<1>1. CacheInv => CacheConsistent
  BY CacheInvImplies, Zenon
<1> QED
  BY <1>1, InitSound, CacheInvInductive, PTL DEF Spec

\* No sequence of inserts, splits of blocks, drops and queries leaves a copy
\* in the cache that is not the present content of its block, on any number
\* of devices.
THEOREM CopiesStayCurrent == Spec => []CachedBlocksCurrent
<1>1. CacheInv => CachedBlocksCurrent
  BY CacheInvImplies, Zenon
<1> QED
  BY <1>1, InitSound, CacheInvInductive, PTL DEF Spec

\* No eviction, by GetColumn or by alloc, takes away the column a register of
\* the running block points into, when the key can be read.
THEOREM RegistersStayValid == Spec => []LockedColumnsStay
<1>1. CacheInv => LockedColumnsStay
  BY CacheInvImplies, Zenon
<1> QED
  BY <1>1, InitSound, CacheInvInductive, PTL DEF Spec

=============================================================================
