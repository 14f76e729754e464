---------------------------- MODULE DeviceProofs ----------------------------
(***************************************************************************)
(* Proofs about what a device holds: the buffer that queries allocate from *)
(* and the table that the threads of a GROUP BY share.                     *)
(*                                                                         *)
(* CudaMemAllocator implements GpuMemory, for every buffer size, unit and  *)
(* set of request sizes.                                                   *)
(*                                                                         *)
(* GroupByTable, for every number of threads, size of table, hash function *)
(* and input: no interleaving of a kernel's threads gives a key two slots, *)
(* and the table is reported full only when it is.                         *)
(***************************************************************************)
EXTENDS CudaMemAllocator, GroupByTable, TLAPS

WellTyped(chain) == DOMAIN chain \subseteq Ptr /\ chain \in [DOMAIN chain -> BlockInfo]

Chain(chain) == WellTyped(chain) /\ Tiles(chain) /\ Covers(chain)

-----------------------------------------------------------------------------
(* The list operations, as functions of the list.                          *)

\* A block of a tiling lies inside the buffer and is not empty.
LEMMA BlockFacts ==
    ASSUME NEW chain, Chain(chain), NEW p \in DOMAIN chain
    PROVE  /\ p \in Nat /\ p < PoolSize
           /\ chain[p].blockSize \in Nat /\ chain[p].blockSize > 0
           /\ chain[p].allocated \in BOOLEAN
           /\ chain[p].next \in Ptr \cup {End} /\ chain[p].prev \in Ptr \cup {End}
           /\ chain[p].next = p + chain[p].blockSize
           /\ p + chain[p].blockSize <= PoolSize
           /\ p \in Ptr /\ p # End
BY AllocatorAssumption DEF Chain, WellTyped, Tiles, BlockInfo, Ptr, End, BlockEnd

\* Marking a block allocated or free moves no byte.
LEMMA MarkChain ==
    ASSUME NEW chain, Chain(chain), NEW p \in DOMAIN chain, NEW a \in BOOLEAN
    PROVE  Chain(Mark(chain, p, a))
<1> DEFINE c == Mark(chain, p, a)
<1>1. DOMAIN c = DOMAIN chain
  BY Zenon DEF Mark
<1>2. \A q \in DOMAIN chain :
        /\ c[q].blockSize = chain[q].blockSize
        /\ c[q].next = chain[q].next
        /\ c[q].prev = chain[q].prev
        /\ c[q] \in BlockInfo
  BY BlockFacts, Zenon DEF Mark, Node, BlockInfo, Chain, WellTyped
<1>3. c = [q \in DOMAIN c |-> c[q]]
  BY Zenon DEF Mark
<1> HIDE DEF c
<1>4. WellTyped(c)
  BY <1>1, <1>2, <1>3, Zenon DEF WellTyped, Chain
<1>5. Tiles(c)
  BY <1>1, <1>2 DEF Tiles, BlockEnd, Chain
<1>6. Covers(c)
  BY <1>1, <1>2, Zenon DEF Covers, BlockEnd, Chain
<1> QED BY <1>4, <1>5, <1>6, Zenon DEF Chain, c

\* Splitting off the tail of a block keeps the list a tiling.
LEMMA SplitChain ==
    ASSUME NEW chain, Chain(chain), NEW p \in DOMAIN chain,
           NEW s \in Nat, s > 0, s < chain[p].blockSize
    PROVE  /\ Chain(SplitBlock(chain, p, s))
           /\ DOMAIN SplitBlock(chain, p, s) = DOMAIN chain \cup {p + s}
           /\ p + s \notin DOMAIN chain
<1> DEFINE c == SplitBlock(chain, p, s)
           r == p + s
           n == chain[p].next
<1>1. DOMAIN c = DOMAIN chain \cup {r}
  BY Zenon DEF SplitBlock
<1>2. r \in Ptr /\ r \notin DOMAIN chain /\ r # p /\ n # p /\ n # r /\ r # End
  BY BlockFacts, AllocatorAssumption DEF Chain, Tiles, BlockEnd, Ptr, End
<1>3. /\ c[r] = Node(FALSE, chain[p].blockSize - s, p, n)
      /\ c[p] = Node(chain[p].allocated, s, chain[p].prev, r)
      /\ n # End => c[n] = Node(chain[n].allocated, chain[n].blockSize, r, chain[n].next)
      /\ \A q \in DOMAIN chain : q # p /\ q # n => c[q] = chain[q]
  <2>1. n # End => n \in DOMAIN chain
    BY Zenon DEF Chain, Tiles
  <2> QED BY <2>1, <1>2, Zenon DEF SplitBlock
<1>4. c = [q \in DOMAIN c |-> c[q]]
  BY Zenon DEF SplitBlock
<1> HIDE DEF c
<1>5. WellTyped(c)
  <2>1. ASSUME NEW q \in DOMAIN c PROVE c[q] \in BlockInfo
    <3>1. CASE q = r BY <3>1, <1>2, <1>3, BlockFacts DEF Node, BlockInfo
    <3>2. CASE q = p BY <3>2, <1>2, <1>3, BlockFacts DEF Node, BlockInfo
    <3>3. CASE q = n /\ n # End /\ q # p /\ q # r
      BY <3>3, <1>1, <1>2, <1>3, BlockFacts DEF Node, BlockInfo
    <3>4. CASE q # r /\ q # p /\ q # n
      BY <3>4, <1>1, <1>3, Zenon DEF Chain, WellTyped
    <3>5. q # End BY <1>1, <1>2, BlockFacts, Zenon
    <3> QED BY <3>1, <3>2, <3>3, <3>4, <3>5, Zenon
  <2> QED BY <2>1, <1>1, <1>2, <1>4, Zenon DEF WellTyped, Chain
<1>6. Tiles(c)
  <2> USE DEF Node
  <2>0. \A q \in DOMAIN chain :
            /\ q \in Nat /\ q # End /\ chain[q].blockSize \in Nat /\ chain[q].blockSize > 0
            /\ chain[q].next \in Ptr \cup {End} /\ chain[q].prev \in Ptr \cup {End}
            /\ chain[q].next = q + chain[q].blockSize
    BY BlockFacts, Zenon
  <2>1. 0 \in DOMAIN c
    BY <1>1, Zenon DEF Chain, Tiles
  <2>2. ASSUME NEW q \in DOMAIN c
        PROVE  /\ c[q].blockSize > 0
               /\ c[q].next = BlockEnd(c, q)
               /\ c[q].next # End => c[q].next \in DOMAIN c /\ c[c[q].next].prev = q
               /\ c[q].prev = End <=> q = 0
               /\ c[q].prev # End => c[q].prev \in DOMAIN c /\ c[c[q].prev].next = q
    <3> USE <1>1, <1>2, <1>3, <2>0 DEF BlockEnd
    <3>1. CASE q = r BY <3>1, SMTT(20) DEF Chain, Tiles
    <3>2. CASE q = p BY <3>2, SMTT(20) DEF Chain, Tiles
    <3>3. CASE q = n /\ q # p /\ q # r BY <3>3, SMTT(20) DEF Chain, Tiles
    <3>4. CASE q # r /\ q # p /\ q # n BY <3>4, SMTT(20) DEF Chain, Tiles
    <3> QED BY <3>1, <3>2, <3>3, <3>4, Zenon
  <2>3. ASSUME NEW q1 \in DOMAIN c, NEW q2 \in DOMAIN c, q1 < q2
        PROVE  BlockEnd(c, q1) <= q2
    BY <2>0, <2>3, <1>1, <1>2, <1>3 DEF Chain, Tiles, BlockEnd
  <2> QED BY <2>1, <2>2, <2>3, Zenon DEF Tiles
<1>7. Covers(c)
  BY <1>1, <1>2, <1>3, BlockFacts DEF Covers, Chain, BlockEnd, Node, Ptr
<1> QED BY <1>1, <1>2, <1>5, <1>6, <1>7, Zenon DEF Chain, c

\* Merging a block into its predecessor keeps the list a tiling.
LEMMA AbsorbChain ==
    ASSUME NEW chain, Chain(chain), NEW a \in DOMAIN chain, NEW b \in DOMAIN chain,
           chain[a].next = b
    PROVE  /\ Chain(Absorb(chain, a, b))
           /\ DOMAIN Absorb(chain, a, b) = DOMAIN chain \ {b}
           /\ a # b
           /\ Absorb(chain, a, b)[a].next = chain[b].next
           /\ \A q \in DOMAIN chain \ {a, b} :
                /\ Absorb(chain, a, b)[q].allocated = chain[q].allocated
                /\ Absorb(chain, a, b)[q].blockSize = chain[q].blockSize
<1> DEFINE c == Absorb(chain, a, b)
           n == chain[b].next
<1>1. DOMAIN c = DOMAIN chain \ {b}
  BY Zenon DEF Absorb
<1>2. a # b /\ n # a /\ n # b /\ (n # End => n \in DOMAIN chain) /\ b > a
  BY BlockFacts DEF Chain, Tiles
<1>3. /\ c[a] = Node(chain[a].allocated, chain[a].blockSize + chain[b].blockSize, chain[a].prev, n)
      /\ n # End => c[n] = Node(chain[n].allocated, chain[n].blockSize, a, chain[n].next)
      /\ \A q \in DOMAIN chain : q # a /\ q # b /\ q # n => c[q] = chain[q]
  BY <1>2, Zenon DEF Absorb
<1>4. c = [q \in DOMAIN c |-> c[q]]
  BY Zenon DEF Absorb
<1> HIDE DEF c
<1>0. \A q \in DOMAIN chain :
        /\ q \in Nat /\ q # End /\ chain[q].blockSize \in Nat /\ chain[q].blockSize > 0
        /\ chain[q].next \in Ptr \cup {End} /\ chain[q].prev \in Ptr \cup {End}
        /\ chain[q].next = q + chain[q].blockSize
  BY BlockFacts, Zenon
<1>5. WellTyped(c)
  <2>1. ASSUME NEW q \in DOMAIN c PROVE c[q] \in BlockInfo
    <3>1. CASE q = a BY <3>1, <1>0, <1>2, <1>3, BlockFacts DEF Node, BlockInfo
    <3>2. CASE q = n /\ q # a
      BY <3>2, <1>0, <1>1, <1>2, <1>3, BlockFacts DEF Node, BlockInfo
    <3>3. CASE q # a /\ q # n
      BY <3>3, <1>1, <1>3 DEF Chain, WellTyped
    <3> QED BY <3>1, <3>2, <3>3, Zenon
  <2> QED BY <2>1, <1>1, <1>4, Zenon DEF WellTyped, Chain
<1>6. Tiles(c)
  <2>1. 0 \in DOMAIN c
    BY <1>0, <1>1, <1>2 DEF Chain, Tiles
  <2>2. ASSUME NEW q \in DOMAIN c
        PROVE  /\ c[q].blockSize > 0
               /\ c[q].next = BlockEnd(c, q)
               /\ c[q].next # End => c[q].next \in DOMAIN c /\ c[c[q].next].prev = q
               /\ c[q].prev = End <=> q = 0
               /\ c[q].prev # End => c[q].prev \in DOMAIN c /\ c[c[q].prev].next = q
    <3> USE <1>0, <1>1, <1>2, <1>3 DEF BlockEnd, Node
    <3>1. CASE q = a BY <3>1, SMTT(20) DEF Chain, Tiles
    <3>2. CASE q = n /\ q # a BY <3>2, SMTT(20) DEF Chain, Tiles
    <3>3. CASE q # a /\ q # n BY <3>3, SMTT(20) DEF Chain, Tiles
    <3> QED BY <3>1, <3>2, <3>3, Zenon
  <2>3. ASSUME NEW q1 \in DOMAIN c, NEW q2 \in DOMAIN c, q1 < q2
        PROVE  BlockEnd(c, q1) <= q2
    BY <2>3, <1>0, <1>1, <1>2, <1>3 DEF Chain, Tiles, BlockEnd, Node
  <2> QED BY <2>1, <2>2, <2>3, Zenon DEF Tiles
<1>7. Covers(c)
  BY <1>0, <1>1, <1>2, <1>3 DEF Covers, Chain, BlockEnd, Node, Ptr
<1>8. \A q \in DOMAIN chain \ {a, b} :
        c[q].allocated = chain[q].allocated /\ c[q].blockSize = chain[q].blockSize
  BY <1>0, <1>2, <1>3 DEF Node
<1>9. c[a].next = n
  BY <1>3 DEF Node
<1> QED BY <1>1, <1>2, <1>5, <1>6, <1>7, <1>8, <1>9, Zenon DEF Chain, c
-----------------------------------------------------------------------------
(* The inductive invariant.                                                *)

IInv == TypeOK /\ ListTilesBuffer /\ NoByteLost /\ NoAdjacentFree /\ IndexesAgree

\* The list of the allocator is a tiling.
LEMMA IInvChain == IInv => Chain(chainedBlocks)
BY Zenon DEF IInv, TypeOK, ListTilesBuffer, NoByteLost, Chain, WellTyped

\* What the list of free blocks looks like from the indexes.
LEMMA IndexFacts ==
    ASSUME IInv
    PROVE  /\ DOMAIN blocksBySize = {q \in DOMAIN chainedBlocks : ~chainedBlocks[q].allocated}
           /\ \A q \in DOMAIN blocksBySize : blocksBySize[q] = chainedBlocks[q].blockSize
           /\ allocatedBlocks = {p \in DOMAIN chainedBlocks : chainedBlocks[p].allocated}
BY Zenon DEF IInv, IndexesAgree

\* Rounding up to the unit never yields less than what was asked for.
LEMMA AlignedSizeBound ==
    ASSUME NEW n \in Int, n > 0
    PROVE  AlignedSize(n) \in Nat /\ AlignedSize(n) >= n
<1>1. n % Unit \in 0 .. (Unit - 1)
  BY AllocatorAssumption
<1> QED BY <1>1, AllocatorAssumption DEF AlignedSize

\* The constructor establishes the invariant.
LEMMA InitIInv == Init => IInv
<1> SUFFICES ASSUME Init PROVE IInv
  BY Zenon
<1> USE AllocatorAssumption DEF Init, Node, Result, Ptr, End, BlockEnd
<1>1. TypeOK BY DEF TypeOK, BlockInfo, Returned
<1>2. ListTilesBuffer BY DEF ListTilesBuffer, Tiles
<1>3. NoByteLost BY DEF NoByteLost, Covers
<1>4. NoAdjacentFree BY Zenon DEF NoAdjacentFree, IsFree
<1>5. IndexesAgree BY Zenon DEF IndexesAgree
<1> QED BY <1>1, <1>2, <1>3, <1>4, <1>5, Zenon DEF IInv

\* What Allocate does to the list when block p is taken for s bytes: c is the list after it.
Taken(c, p, s) ==
    /\ p \in DOMAIN chainedBlocks /\ ~chainedBlocks[p].allocated
    /\ chainedBlocks[p].blockSize >= s
    /\ Chain(c)
    /\ c[p].allocated /\ c[p].blockSize = s
    /\ DOMAIN c = DOMAIN chainedBlocks \cup (IF chainedBlocks[p].blockSize > s THEN {p + s} ELSE {})
    /\ \A q \in DOMAIN chainedBlocks \ {p} :
         /\ c[q].allocated = chainedBlocks[q].allocated
         /\ c[q].blockSize = chainedBlocks[q].blockSize
         /\ c[q].next = chainedBlocks[q].next
    /\ chainedBlocks[p].blockSize > s =>
         /\ p + s \notin DOMAIN chainedBlocks
         /\ ~c[p + s].allocated
         /\ c[p + s].blockSize = chainedBlocks[p].blockSize - s
         /\ c[p].next = p + s
         /\ c[p + s].next = chainedBlocks[p].next

\* Allocate's list edits do that.
LEMMA TakeFacts ==
    ASSUME IInv, NEW s \in Nat, s > 0, NEW p \in LowerBound(s)
    PROVE  Taken(TakeChain(p, s), p, s)
<1> DEFINE m == Mark(chainedBlocks, p, TRUE)
<1>1. /\ p \in DOMAIN chainedBlocks /\ ~chainedBlocks[p].allocated
      /\ blocksBySize[p] = chainedBlocks[p].blockSize
      /\ chainedBlocks[p].blockSize >= s
  BY IndexFacts, Zenon DEF LowerBound, LargeEnough
<1>2. Chain(chainedBlocks) BY IInvChain, Zenon
<1>3. Chain(m) BY <1>1, <1>2, MarkChain, Zenon
<1>4. /\ DOMAIN m = DOMAIN chainedBlocks
      /\ m[p] = Node(TRUE, chainedBlocks[p].blockSize, chainedBlocks[p].prev, chainedBlocks[p].next)
      /\ \A q \in DOMAIN chainedBlocks : q # p => m[q] = chainedBlocks[q]
  BY <1>1, Zenon DEF Mark
<1>5. TakeChain(p, s) = IF chainedBlocks[p].blockSize > s THEN SplitBlock(m, p, s) ELSE m
  BY <1>1, Zenon DEF TakeChain
<1> HIDE DEF m
<1>6. CASE chainedBlocks[p].blockSize > s
  <2> DEFINE c == SplitBlock(m, p, s)
  <2>1. s < m[p].blockSize
    BY <1>1, <1>2, <1>4, <1>6, BlockFacts DEF Node
  <2>2. /\ Chain(c) /\ DOMAIN c = DOMAIN m \cup {p + s} /\ p + s \notin DOMAIN m
    BY <2>1, <1>1, <1>3, <1>4, SplitChain, Zenon
  <2>3. p + s # p
    BY <1>1, <2>2, <1>4, Zenon
  <2>4. /\ c[p + s] = Node(FALSE, m[p].blockSize - s, p, m[p].next)
        /\ c[p] = Node(m[p].allocated, s, m[p].prev, p + s)
        /\ \A q \in DOMAIN m : q # p =>
              /\ c[q].allocated = m[q].allocated
              /\ c[q].blockSize = m[q].blockSize
              /\ c[q].next = m[q].next
    BY <1>1, <1>4, <2>2, <2>3, Zenon DEF SplitBlock, Node
  <2> HIDE DEF c
  <2>5. TakeChain(p, s) = c
    BY <1>5, <1>6, Zenon DEF c
  <2> QED BY <1>1, <1>4, <1>6, <2>2, <2>3, <2>4, <2>5 DEF Node, Taken
<1>7. CASE ~(chainedBlocks[p].blockSize > s)
  <2>1. chainedBlocks[p].blockSize = s
    BY <1>1, <1>2, <1>7, BlockFacts
  <2> QED BY <1>1, <1>3, <1>4, <1>5, <1>7, <2>1 DEF Node, Taken
<1> QED BY <1>6, <1>7, Zenon

\* Allocate keeps the invariant when it finds a block.
LEMMA AllocateKeepsIInv ==
    ASSUME IInv, NEW n \in Requests, AllocateBlock(n)
    PROVE  IInv'
<1> DEFINE s == AlignedSize(n)
<1>1. PICK p \in LowerBound(s) :
        /\ chainedBlocks' = TakeChain(p, s)
        /\ blocksBySize' = TakeIndex(p, s)
        /\ allocatedBlocks' = allocatedBlocks \cup {p}
        /\ ret' = Result("Allocate", n, "ok", p)
  BY Zenon DEF AllocateBlock
<1>2. s \in Nat /\ s > 0
  BY AlignedSizeBound, AllocatorAssumption DEF AllocateBlock
<1> HIDE DEF s
<1>3. Chain(chainedBlocks)
  BY IInvChain, Zenon
<1>4. Taken(chainedBlocks', p, s)
  BY <1>1, <1>2, TakeFacts, Zenon
<1>5. /\ DOMAIN blocksBySize = {q \in DOMAIN chainedBlocks : ~chainedBlocks[q].allocated}
      /\ \A q \in DOMAIN blocksBySize : blocksBySize[q] = chainedBlocks[q].blockSize
      /\ allocatedBlocks = {q \in DOMAIN chainedBlocks : chainedBlocks[q].allocated}
  BY IndexFacts, Zenon
<1>6. IndexesAgree'
  <2>1. DOMAIN blocksBySize' = {q \in DOMAIN chainedBlocks' : ~chainedBlocks'[q].allocated}
    BY <1>1, <1>2, <1>4, <1>5, Zenon DEF TakeIndex, Taken
  <2>2. ASSUME NEW q \in DOMAIN blocksBySize' PROVE blocksBySize'[q] = chainedBlocks'[q].blockSize
    BY <1>1, <1>2, <1>4, <1>5, <2>1 DEF TakeIndex, Taken
  <2>3. blocksBySize' = [q \in DOMAIN blocksBySize' |-> blocksBySize'[q]]
    BY <1>1, Zenon DEF TakeIndex
  <2>4. allocatedBlocks' = {q \in DOMAIN chainedBlocks' : chainedBlocks'[q].allocated}
    BY <1>1, <1>4, <1>5, Zenon DEF Taken
  <2> QED BY <2>1, <2>2, <2>3, <2>4, Zenon DEF IndexesAgree
<1>7. TypeOK'
  <2>1. \A q \in DOMAIN blocksBySize' : blocksBySize'[q] \in Nat
    BY <1>4, <1>6, BlockFacts, Zenon DEF IndexesAgree, Taken
  <2>2. ret' \in Returned
    BY <1>1, <1>3, <1>4, BlockFacts, AllocatorAssumption, Zenon DEF Result, Returned, Taken
  <2> QED BY <1>4, <1>6, <2>1, <2>2, Zenon DEF TypeOK, IndexesAgree, Chain, WellTyped, Taken
<1>8. NoAdjacentFree'
  <2> SUFFICES ASSUME NEW q \in DOMAIN chainedBlocks', IsFree(chainedBlocks', q)
               PROVE  ~IsFree(chainedBlocks', chainedBlocks'[q].next)
    BY Zenon DEF NoAdjacentFree
  <2> USE <1>4 DEF IsFree, Taken
  <2>1. CASE q \in DOMAIN chainedBlocks
    <3>1. q # p /\ chainedBlocks'[q].next = chainedBlocks[q].next
      BY <2>1, Zenon
    <3>2. ~IsFree(chainedBlocks, chainedBlocks[q].next)
      BY <2>1, <3>1, <1>3, BlockFacts, Zenon DEF IInv, NoAdjacentFree
    <3>3. chainedBlocks[q].next # End => chainedBlocks[q].next \in DOMAIN chainedBlocks
      BY <2>1, <1>3, Zenon DEF Chain, Tiles
    <3> QED BY <3>1, <3>2, <3>3
  <2>2. CASE q \notin DOMAIN chainedBlocks
    <3>1. chainedBlocks[p].blockSize > s /\ q = p + s
      BY <2>2, Zenon
    <3>2. chainedBlocks'[q].next = chainedBlocks[p].next
      BY <3>1, Zenon
    <3>3. chainedBlocks[p].next # End => /\ chainedBlocks[p].next \in DOMAIN chainedBlocks
                                         /\ chainedBlocks[p].next # p
      <4>1. /\ p \in Nat /\ chainedBlocks[p].blockSize \in Nat /\ chainedBlocks[p].blockSize > 0
            /\ chainedBlocks[p].next = p + chainedBlocks[p].blockSize
        BY <1>3, BlockFacts
      <4>2. chainedBlocks[p].next # p
        BY <4>1
      <4> QED
        BY <1>3, <4>2, Zenon DEF Chain, Tiles
    <3>4. ~IsFree(chainedBlocks, chainedBlocks[p].next)
      BY <1>3, BlockFacts, Zenon DEF IInv, NoAdjacentFree
    <3> QED BY <3>2, <3>3, <3>4
  <2> QED BY <2>1, <2>2, Zenon
<1> QED BY <1>4, <1>6, <1>7, <1>8, Zenon DEF IInv, Chain, ListTilesBuffer, NoByteLost, Taken
\* The nodes that Deallocate(p) erases from the list.
Gone(p) == (IF MergePrev(p) THEN {p} ELSE {}) \cup (IF MergeNext(p) THEN {chainedBlocks[p].next} ELSE {})

\* What Deallocate does to the list when block p is freed: c is the list after it.
Freed(c, p) ==
    /\ Chain(c)
    /\ DOMAIN c = DOMAIN chainedBlocks \ Gone(p)
    /\ Survivor(p) \in DOMAIN c
    /\ ~c[Survivor(p)].allocated
    /\ \A q \in DOMAIN c \ {Survivor(p)} :
         /\ c[q].allocated = chainedBlocks[q].allocated
         /\ c[q].blockSize = chainedBlocks[q].blockSize
    /\ c[Survivor(p)].next = IF MergeNext(p) THEN chainedBlocks[chainedBlocks[p].next].next
                                             ELSE chainedBlocks[p].next

\* The list after the merge with the predecessor.
LEMMA PrevFacts ==
    ASSUME IInv, NEW p \in allocatedBlocks
    PROVE  /\ Chain(AfterPrev(p))
           /\ p \in DOMAIN chainedBlocks /\ chainedBlocks[p].allocated
           /\ DOMAIN AfterPrev(p) = DOMAIN chainedBlocks \ (IF MergePrev(p) THEN {p} ELSE {})
           /\ Survivor(p) \in DOMAIN AfterPrev(p)
           /\ AfterPrev(p)[Survivor(p)].next = chainedBlocks[p].next
           /\ \A q \in DOMAIN AfterPrev(p) \ {Survivor(p)} :
                /\ AfterPrev(p)[q].allocated = chainedBlocks[q].allocated
                /\ AfterPrev(p)[q].blockSize = chainedBlocks[q].blockSize
           /\ MergePrev(p) => /\ Survivor(p) # p
                              /\ Survivor(p) \in DOMAIN chainedBlocks
                              /\ ~chainedBlocks[Survivor(p)].allocated
           /\ ~MergePrev(p) => Survivor(p) = p
<1>1. Chain(chainedBlocks)
  BY IInvChain, Zenon
<1>2. p \in DOMAIN chainedBlocks /\ chainedBlocks[p].allocated
  BY IndexFacts, Zenon
<1>3. CASE MergePrev(p)
  <2> DEFINE a == chainedBlocks[p].prev
  <2>1. a \in DOMAIN chainedBlocks /\ chainedBlocks[a].next = p /\ ~chainedBlocks[a].allocated
    BY <1>1, <1>2, <1>3, Zenon DEF Chain, Tiles, MergePrev, IsFree
  <2>2. AfterPrev(p) = Absorb(chainedBlocks, a, p) /\ Survivor(p) = a
    BY <1>3, Zenon DEF AfterPrev, Survivor
  <2> QED BY <1>1, <1>2, <1>3, <2>1, <2>2, AbsorbChain
<1>4. CASE ~MergePrev(p)
  BY <1>1, <1>2, <1>4, Zenon DEF AfterPrev, Survivor
<1> QED BY <1>3, <1>4, Zenon

\* Deallocate's list edits do that.
LEMMA FreeFacts ==
    ASSUME IInv, NEW p \in allocatedBlocks
    PROVE  Freed(FreeChain(p), p)
<1> DEFINE c1 == AfterPrev(p)
           sv == Survivor(p)
           nx == chainedBlocks[p].next
           c2 == IF MergeNext(p) THEN Absorb(c1, sv, nx) ELSE c1
<1>1. /\ Chain(c1)
      /\ p \in DOMAIN chainedBlocks /\ chainedBlocks[p].allocated
      /\ DOMAIN c1 = DOMAIN chainedBlocks \ (IF MergePrev(p) THEN {p} ELSE {})
      /\ sv \in DOMAIN c1
      /\ c1[sv].next = nx
      /\ \A q \in DOMAIN c1 \ {sv} :
            /\ c1[q].allocated = chainedBlocks[q].allocated
            /\ c1[q].blockSize = chainedBlocks[q].blockSize
  BY PrevFacts, Zenon
<1>2. FreeChain(p) = Mark(c2, sv, FALSE)
  BY <1>1, Zenon DEF FreeChain
<1>3. nx = p + chainedBlocks[p].blockSize /\ nx # p /\ (nx # End => nx \in DOMAIN chainedBlocks)
  <2>1. /\ p \in Nat /\ chainedBlocks[p].blockSize \in Nat /\ chainedBlocks[p].blockSize > 0
        /\ nx = p + chainedBlocks[p].blockSize
    BY <1>1, IInvChain, BlockFacts, Zenon
  <2>2. nx # p
    BY <2>1
  <2> QED
    BY <1>1, <2>1, <2>2, IInvChain, Zenon DEF Chain, Tiles
<1>4. nx # sv
  BY <1>1, BlockFacts
<1>5. /\ Chain(c2)
      /\ DOMAIN c2 = DOMAIN chainedBlocks \ Gone(p)
      /\ sv \in DOMAIN c2
      /\ \A q \in DOMAIN c2 \ {sv} :
            /\ c2[q].allocated = chainedBlocks[q].allocated
            /\ c2[q].blockSize = chainedBlocks[q].blockSize
      /\ c2[sv].next = IF MergeNext(p) THEN chainedBlocks[nx].next ELSE nx
  <2>1. CASE MergeNext(p)
    <3>1. nx # End /\ nx \in DOMAIN c1
      BY <1>1, <1>3, <2>1, Zenon DEF MergeNext, IsFree
    <3>2. c1[nx].next = chainedBlocks[nx].next
      BY <3>1, <1>1, <1>4, IInvChain, BlockFacts
    <3>3. /\ Chain(c2) /\ DOMAIN c2 = DOMAIN c1 \ {nx}
          /\ c2[sv].next = c1[nx].next
          /\ \A q \in DOMAIN c1 \ {sv, nx} :
                c2[q].allocated = c1[q].allocated /\ c2[q].blockSize = c1[q].blockSize
      <4>1. c2 = Absorb(c1, sv, nx)
        BY <2>1, Zenon
      <4> HIDE DEF c1, c2, sv, nx
      <4> QED BY <4>1, <3>1, <1>1, AbsorbChain
    <3> HIDE DEF c1, c2, sv, nx
    <3>4. Gone(p) = (IF MergePrev(p) THEN {p} ELSE {}) \cup {nx}
      BY <2>1, Zenon DEF Gone, nx
    <3> QED BY <1>1, <1>4, <2>1, <3>2, <3>3, <3>4, Zenon
  <2>2. CASE ~MergeNext(p)
    BY <1>1, <2>2, Zenon DEF Gone
  <2> QED BY <2>1, <2>2, Zenon
<1> HIDE DEF c1, c2, sv
<1>6. Chain(Mark(c2, sv, FALSE))
  BY <1>5, MarkChain, Zenon
<1>7. /\ DOMAIN Mark(c2, sv, FALSE) = DOMAIN c2
      /\ \A q \in DOMAIN c2 : q # sv => Mark(c2, sv, FALSE)[q] = c2[q]
  BY <1>5, Zenon DEF Mark
<1>8. /\ Mark(c2, sv, FALSE)[sv].next = c2[sv].next
      /\ ~Mark(c2, sv, FALSE)[sv].allocated
  BY <1>5, Zenon DEF Mark, Node
<1>9. Freed(Mark(c2, sv, FALSE), p)
  <2> DEFINE c3 == Mark(c2, sv, FALSE)
  <2> HIDE DEF c3
  <2> QED BY <1>5, <1>6, <1>7, <1>8, Zenon DEF Freed, sv, c3
<1> QED BY <1>2, <1>9, Zenon

\* Deallocate keeps the invariant when the pointer is an allocated one.
LEMMA DeallocateKeepsIInv ==
    ASSUME IInv, NEW p \in Ptr, DeallocateBlock(p)
    PROVE  IInv'
<1> DEFINE sv == Survivor(p)
           nx == chainedBlocks[p].next
<1>1. p \in allocatedBlocks
  BY Zenon DEF DeallocateBlock
<1>2. Freed(chainedBlocks', p)
  BY <1>1, FreeFacts, Zenon DEF DeallocateBlock
<1>3. /\ p \in DOMAIN chainedBlocks /\ chainedBlocks[p].allocated
      /\ MergePrev(p) => sv # p /\ sv \in DOMAIN chainedBlocks /\ ~chainedBlocks[sv].allocated
      /\ ~MergePrev(p) => sv = p
  BY <1>1, PrevFacts, Zenon
<1>4. Chain(chainedBlocks) /\ Chain(chainedBlocks')
  BY <1>2, IInvChain, Zenon DEF Freed
<1>5. nx # End => nx \in DOMAIN chainedBlocks
  BY <1>3, <1>4, Zenon DEF Chain, Tiles
<1>6. MergeNext(p) <=> nx # End /\ ~chainedBlocks[nx].allocated
  <2> DEFINE c1 == AfterPrev(p)
  <2>1. /\ Chain(c1) /\ sv \in DOMAIN c1 /\ c1[sv].next = nx
        /\ DOMAIN c1 = DOMAIN chainedBlocks \ (IF MergePrev(p) THEN {p} ELSE {})
        /\ \A q \in DOMAIN c1 \ {sv} : c1[q].allocated = chainedBlocks[q].allocated
    BY <1>1, PrevFacts, Zenon
  <2>2. MergeNext(p) <=> nx # End /\ ~c1[nx].allocated
    BY <2>1, Zenon DEF MergeNext, IsFree
  <2> HIDE DEF c1, sv
  <2>3. nx # sv
    BY <2>1, BlockFacts
  <2>4. nx # p
    BY <1>3, <1>4, BlockFacts
  <2> QED BY <2>1, <2>2, <2>3, <2>4, <1>5, Zenon
<1>7. /\ DOMAIN blocksBySize = {q \in DOMAIN chainedBlocks : ~chainedBlocks[q].allocated}
      /\ \A q \in DOMAIN blocksBySize : blocksBySize[q] = chainedBlocks[q].blockSize
      /\ allocatedBlocks = {q \in DOMAIN chainedBlocks : chainedBlocks[q].allocated}
  BY IndexFacts, Zenon
<1>8. IndexesAgree'
  <2>1. blocksBySize' = [q \in (DOMAIN blocksBySize \ (IF MergeNext(p) THEN {nx} ELSE {})) \cup {sv} |->
                            IF q = sv THEN chainedBlocks'[q].blockSize ELSE blocksBySize[q]]
    BY <1>1, PrevFacts, Zenon DEF DeallocateBlock, FreeIndex
  <2>2. DOMAIN blocksBySize' = {q \in DOMAIN chainedBlocks' : ~chainedBlocks'[q].allocated}
    BY <2>1, <1>2, <1>3, <1>6, <1>7, Zenon DEF Freed, Gone
  <2>3. \A q \in DOMAIN blocksBySize' : blocksBySize'[q] = chainedBlocks'[q].blockSize
    BY <2>1, <2>2, <1>2, <1>7, Zenon DEF Freed
  <2>4. allocatedBlocks' = {q \in DOMAIN chainedBlocks' : chainedBlocks'[q].allocated}
    BY <1>2, <1>3, <1>6, <1>7, Zenon DEF Freed, Gone, DeallocateBlock
  <2>5. blocksBySize' = [q \in DOMAIN blocksBySize' |-> blocksBySize'[q]]
    BY <2>1, Zenon
  <2> QED BY <2>2, <2>3, <2>4, <2>5, Zenon DEF IndexesAgree
<1>9. TypeOK'
  <2>1. \A q \in DOMAIN blocksBySize' : blocksBySize'[q] \in Nat
    BY <1>4, <1>8, BlockFacts, Zenon DEF IndexesAgree
  <2>2. ret' \in Returned
    BY AllocatorAssumption DEF DeallocateBlock, Result, Returned, Ptr
  <2> QED BY <1>4, <1>8, <2>1, <2>2, Zenon DEF TypeOK, IndexesAgree, Chain, WellTyped
<1>10. NoAdjacentFree'
  <2> SUFFICES ASSUME NEW q \in DOMAIN chainedBlocks', ~chainedBlocks'[q].allocated,
                      chainedBlocks'[q].next # End
               PROVE  chainedBlocks'[chainedBlocks'[q].next].allocated
    BY Zenon DEF NoAdjacentFree, IsFree
  <2> DEFINE n == chainedBlocks'[q].next
  <2>0. \A r \in DOMAIN chainedBlocks : ~chainedBlocks[r].allocated /\ chainedBlocks[r].next # End
            => chainedBlocks[chainedBlocks[r].next].allocated
    BY <1>4, BlockFacts, Zenon DEF IInv, NoAdjacentFree, IsFree
  <2>1. n \in DOMAIN chainedBlocks' /\ n # q /\ n \in DOMAIN chainedBlocks
    <3>1. n \in DOMAIN chainedBlocks'
      BY <1>4, Zenon DEF Chain, Tiles
    <3>2. n # q
      BY <1>4, BlockFacts
    <3>3. DOMAIN chainedBlocks' \subseteq DOMAIN chainedBlocks
      BY <1>2, Zenon DEF Freed
    <3> QED BY <3>1, <3>2, <3>3, Zenon
  <2>2. CASE q = sv
    <3>1. n = IF MergeNext(p) THEN chainedBlocks[nx].next ELSE nx
      BY <1>2, <2>2, Zenon DEF Freed
    <3>2. chainedBlocks[n].allocated
      BY <3>1, <2>0, <2>1, <1>5, <1>6, <1>4, BlockFacts, Zenon DEF Chain, WellTyped
    <3> QED BY <3>2, <2>1, <2>2, <1>2, Zenon DEF Freed
  <2>3. CASE q # sv
    <3>1. /\ q \in DOMAIN chainedBlocks /\ ~chainedBlocks[q].allocated
          /\ chainedBlocks[q].next = n
      BY <1>2, <1>4, <2>3, BlockFacts DEF Freed
    <3>2. chainedBlocks[n].allocated
      BY <2>0, <3>1, Zenon
    <3>3. CASE n # sv
      BY <3>2, <3>3, <2>1, <1>2, Zenon DEF Freed
    <3>4. CASE n = sv
      <4>1. ~MergePrev(p) /\ n = p
        BY <3>2, <3>4, <1>3, Zenon
      <4>2. chainedBlocks[p].prev = q
        BY <4>1, <3>1, <1>4 DEF Chain, Tiles
      <4>3. q # End
        BY <3>1, <1>4, BlockFacts, Zenon
      <4> QED BY <4>1, <4>2, <4>3, <3>1, Zenon DEF MergePrev, IsFree
    <3> QED BY <3>3, <3>4, Zenon
  <2> QED BY <2>2, <2>3, Zenon
<1> QED BY <1>4, <1>8, <1>9, <1>10, Zenon DEF IInv, Chain, ListTilesBuffer, NoByteLost

\* Every step of the allocator keeps the invariant.
LEMMA NextIInv == IInv /\ [Next]_vars => IInv'
<1> SUFFICES ASSUME IInv, [Next]_vars PROVE IInv'
  BY Zenon
<1>1. ASSUME NEW n \in Requests, AllocateInvalid(n) \/ AllocateOutOfMemory(n) PROVE IInv'
  <2>1. UNCHANGED <<chainedBlocks, blocksBySize, allocatedBlocks>>
    BY <1>1, Zenon DEF AllocateInvalid, AllocateOutOfMemory
  <2>2. ret' \in Returned
    BY <1>1, AllocatorAssumption DEF AllocateInvalid, AllocateOutOfMemory, Result, Returned, Ptr
  <2> QED BY <2>1, <2>2, Zenon DEF IInv, TypeOK, ListTilesBuffer, NoByteLost, NoAdjacentFree, IndexesAgree
<1>2. ASSUME NEW p \in Ptr, DeallocateUnknown(p) PROVE IInv'
  <2>1. UNCHANGED <<chainedBlocks, blocksBySize, allocatedBlocks>>
    BY <1>2, Zenon DEF DeallocateUnknown
  <2>2. ret' \in Returned
    BY <1>2, AllocatorAssumption DEF DeallocateUnknown, Result, Returned, Ptr
  <2> QED BY <2>1, <2>2, Zenon DEF IInv, TypeOK, ListTilesBuffer, NoByteLost, NoAdjacentFree, IndexesAgree
<1>3. CASE UNCHANGED vars
  BY <1>3, Zenon DEF vars, IInv, TypeOK, ListTilesBuffer, NoByteLost, NoAdjacentFree, IndexesAgree
<1> QED BY <1>1, <1>2, <1>3, AllocateKeepsIInv, DeallocateKeepsIInv, Zenon DEF Next

\* For every buffer size, unit and mix of calls: the list tiles the buffer, no
\* byte is lost, free blocks are coalesced and both indexes agree with the list.
THEOREM AllocatorInvariant ==
    Spec => []HeapConsistent
<1>1. Spec => []IInv
  BY InitIInv, NextIInv, PTL DEF Spec
<1>2. IInv => HeapConsistent
  BY Zenon DEF IInv, HeapConsistent
<1> QED BY <1>1, <1>2, PTL
-----------------------------------------------------------------------------
(* Alignment.                                                              *)

\* Multiples of a unit are closed under addition.
LEMMA MultiplesAdd ==
    ASSUME NEW u \in Nat \ {0}, NEW a \in Int, NEW b \in Int, a % u = 0, b % u = 0
    PROVE  (a + b) % u = 0
<1> DEFINE i == a \div u
           j == b \div u
<1>1. i \in Int /\ j \in Int
  OBVIOUS
<1>2. a = u * i + (a % u) /\ b = u * j + (b % u)
  BY Z3
<1> HIDE DEF i, j
<1>3. a = u * i /\ b = u * j
  BY <1>1, <1>2
<1>4. a + b = u * (i + j) /\ i + j \in Int
  BY <1>1, <1>3
<1>5. \A k \in Int : (u * k) % u = 0
  OBVIOUS
<1> QED BY <1>4, <1>5, Zenon

\* Adding what is missing to the next multiple of a unit yields a multiple.
LEMMA RoundUp ==
    ASSUME NEW u \in Nat \ {0}, NEW n \in Int
    PROVE  (n + (u - (n % u))) % u = 0
OBVIOUS

\* AlignedSize rounds up to a multiple of the unit.
LEMMA AlignedSizeMultiple ==
    ASSUME NEW n \in Int
    PROVE  AlignedSize(n) % Unit = 0
BY RoundUp, AllocatorAssumption, Zenon DEF AlignedSize

\* Every block of the list begins on a multiple of the unit, whatever PoolSize is.
THEOREM AllocatorAlignment == Spec => []PointersAligned
<1>1. Init => PointersAligned
  BY AllocatorAssumption DEF Init, PointersAligned
<1>2. IInv /\ PointersAligned /\ [Next]_vars => PointersAligned'
  <2> SUFFICES ASSUME IInv, PointersAligned, [Next]_vars PROVE PointersAligned'
    BY Zenon
  <2>1. ASSUME NEW n \in Requests, AllocateBlock(n) PROVE PointersAligned'
    <3> DEFINE s == AlignedSize(n)
    <3>1. PICK p \in LowerBound(s) : chainedBlocks' = TakeChain(p, s)
      BY <2>1, Zenon DEF AllocateBlock
    <3>2. s \in Nat /\ s > 0 /\ s % Unit = 0
      BY <2>1, AlignedSizeBound, AlignedSizeMultiple, AllocatorAssumption DEF AllocateBlock
    <3> HIDE DEF s
    <3>3. Taken(chainedBlocks', p, s)
      BY <3>1, <3>2, TakeFacts, Zenon
    <3>4. p \in Int /\ p % Unit = 0
      BY <3>3, IInvChain, BlockFacts DEF Taken, PointersAligned
    <3>5. Unit \in Nat \ {0} /\ s \in Int
      BY <3>2, AllocatorAssumption
    <3>6. (p + s) % Unit = 0
      BY <3>2, <3>4, <3>5, MultiplesAdd, Zenon
    <3> QED BY <3>3, <3>6, Zenon DEF Taken, PointersAligned
  <2>2. ASSUME NEW p \in Ptr, DeallocateBlock(p) PROVE PointersAligned'
    <3>1. Freed(chainedBlocks', p)
      BY <2>2, FreeFacts, Zenon DEF DeallocateBlock
    <3> QED BY <3>1, Zenon DEF Freed, PointersAligned
  <2>3. CASE UNCHANGED chainedBlocks
    BY <2>3, Zenon DEF PointersAligned
  <2> QED BY <2>1, <2>2, <2>3, Zenon DEF Next, AllocateInvalid, AllocateOutOfMemory, DeallocateUnknown, vars
<1> QED BY <1>1, <1>2, InitIInv, NextIInv, PTL DEF Spec
-----------------------------------------------------------------------------
(* Refinement.                                                             *)

\* Out of memory means that no gap of the buffer could hold the request: a gap
\* of free bytes lies within one free block, because neighbours are coalesced.
LEMMA RefusedOnlyWhenFull ==
    ASSUME IInv, NEW s \in Nat, s > 0, LargeEnough(s) = {}, NEW a \in Ptr, Promised!Gap(a, s)
    PROVE  FALSE
<1>1. Chain(chainedBlocks)
  BY IInvChain, Zenon
<1>2. PICK p \in DOMAIN chainedBlocks : p <= a /\ a < p + chainedBlocks[p].blockSize
  BY <1>1, Zenon DEF Chain, Covers, BlockEnd
<1>3. \A q \in DOMAIN chainedBlocks : chainedBlocks[q].allocated =>
         a + s <= q \/ q + chainedBlocks[q].blockSize <= a
  BY IndexFacts, Zenon DEF Promised!Gap, Live
<1>4. a \in Nat /\ p \in Nat /\ chainedBlocks[p].blockSize \in Nat /\ a + s <= PoolSize
  BY <1>1, BlockFacts, AllocatorAssumption DEF Ptr, Promised!Gap
<1>5. ~chainedBlocks[p].allocated
  BY <1>2, <1>3, <1>4
<1>6. p + chainedBlocks[p].blockSize < a + s
  <2>1. blocksBySize[p] = chainedBlocks[p].blockSize /\ p \in DOMAIN blocksBySize
    BY <1>5, IndexFacts, Zenon
  <2> QED BY <2>1, <1>2, <1>4 DEF LargeEnough
<1> DEFINE n == chainedBlocks[p].next
<1>7. n = p + chainedBlocks[p].blockSize /\ n # End
  BY <1>1, <1>4, <1>6, BlockFacts DEF End
<1>8. n \in DOMAIN chainedBlocks /\ chainedBlocks[n].allocated /\ n \in Nat
  BY <1>1, <1>4, <1>5, <1>7, BlockFacts DEF IInv, NoAdjacentFree, IsFree, Chain, Tiles
<1> QED BY <1>1, <1>2, <1>3, <1>4, <1>6, <1>7, <1>8, BlockFacts
\* Taking a block is granting the region it begins.
LEMMA TakeGrants ==
    ASSUME IInv, PointersAligned, NEW n \in Requests, AllocateBlock(n)
    PROVE  Promised!Allocate(n)
<1> DEFINE s == AlignedSize(n)
<1>1. PICK p \in LowerBound(s) :
        /\ chainedBlocks' = TakeChain(p, s)
        /\ allocatedBlocks' = allocatedBlocks \cup {p}
        /\ ret' = Result("Allocate", n, "ok", p)
  BY Zenon DEF AllocateBlock
<1>2. s \in Nat /\ s > 0 /\ s = Promised!Rounded(n) /\ n > 0
  BY AlignedSizeBound, AllocatorAssumption DEF AllocateBlock, AlignedSize, Promised!Rounded
<1> HIDE DEF s
<1>3. Taken(chainedBlocks', p, s)
  BY <1>1, <1>2, TakeFacts, Zenon
<1>4. Chain(chainedBlocks) /\ p \in Ptr /\ p % Unit = 0
  BY <1>3, IInvChain, BlockFacts, Zenon DEF Taken, PointersAligned
<1>5. Promised!Gap(p, s)
  <2>1. p + s <= PoolSize
    BY <1>2, <1>3, <1>4, BlockFacts, AllocatorAssumption, Zenon DEF Taken
  <2>2. ASSUME NEW q \in allocatedBlocks PROVE p + s <= q \/ q + chainedBlocks[q].blockSize <= p
    <3>1. q \in DOMAIN chainedBlocks /\ q # p
      BY <1>3, IndexFacts, Zenon DEF Taken
    <3>2. q \in Nat /\ p \in Nat /\ chainedBlocks[p].blockSize \in Nat /\ chainedBlocks[p].blockSize >= s
      BY <1>3, <1>4, <3>1, BlockFacts, Zenon DEF Taken
    <3>3. /\ q < p => q + chainedBlocks[q].blockSize <= p
          /\ p < q => p + chainedBlocks[p].blockSize <= q
      BY <1>3, <1>4, <3>1, Zenon DEF Chain, Tiles, BlockEnd, Taken
    <3> QED BY <3>1, <3>2, <3>3, <1>2
  <2> QED BY <2>1, <2>2, Zenon DEF Promised!Gap, Live
<1>6. Live' = [q \in DOMAIN Live \cup {p} |-> IF q = p THEN s ELSE Live[q]]
  <2>1. \A q \in allocatedBlocks : q \in DOMAIN chainedBlocks /\ q # p
    BY <1>3, IndexFacts, Zenon DEF Taken
  <2> QED BY <1>1, <1>3, <2>1, Zenon DEF Live, Taken
<1>7. Promised!Grant(n, p)
  BY <1>1, <1>2, <1>4, <1>5, <1>6, Zenon DEF Promised!Grant, Promised!Result, Result
<1> QED BY <1>2, <1>4, <1>7, Zenon DEF Promised!Allocate, Promised!Address, Ptr

\* Freeing a block gives back exactly its own region.
LEMMA FreeGivesBack ==
    ASSUME IInv, NEW p \in Ptr, DeallocateBlock(p)
    PROVE  Promised!Deallocate(p)
<1>1. p \in allocatedBlocks /\ allocatedBlocks' = allocatedBlocks \ {p}
  BY Zenon DEF DeallocateBlock
<1>2. Freed(chainedBlocks', p)
  BY <1>1, FreeFacts, Zenon DEF DeallocateBlock
<1>3. IInv'
  BY DeallocateKeepsIInv, Zenon
<1>4. ASSUME NEW q \in allocatedBlocks' PROVE chainedBlocks'[q].blockSize = chainedBlocks[q].blockSize
  <2>1. q \in DOMAIN chainedBlocks' /\ chainedBlocks'[q].allocated
    BY <1>3, Zenon DEF IInv, IndexesAgree
  <2> QED BY <2>1, <1>2, Zenon DEF Freed
<1>5. Live' = [q \in DOMAIN Live \ {p} |-> Live[q]]
  BY <1>1, <1>4, Zenon DEF Live
<1> QED BY <1>1, <1>5, Zenon DEF Promised!Deallocate, Live, DeallocateBlock, Promised!Result, Result

\* The allocator does what GpuMemory promises, for every buffer size, unit and
\* mix of calls: disjoint aligned regions, and out_of_memory only without a gap.
THEOREM AllocatorImplements == Spec => ImplementsGpuMemory
<1>1. Init => Promised!Init
  BY Zenon DEF Init, Promised!Init, Live, Result, Promised!Result
<1>2. IInv /\ PointersAligned /\ [Next]_vars => [Promised!Next]_(Promised!vars)
  <2> SUFFICES ASSUME IInv, PointersAligned, [Next]_vars PROVE [Promised!Next]_(Promised!vars)
    BY Zenon
  <2> USE DEF Promised!Next, Promised!Address, Ptr
  <2>1. ASSUME NEW n \in Requests, AllocateInvalid(n) PROVE Promised!Next
    BY <2>1, Zenon DEF AllocateInvalid, Promised!Reject, Live, Result, Promised!Result
  <2>2. ASSUME NEW n \in Requests, AllocateOutOfMemory(n) PROVE Promised!Next
    <3>1. /\ AlignedSize(n) \in Nat /\ AlignedSize(n) > 0
          /\ AlignedSize(n) = Promised!Rounded(n) /\ n > 0
      BY <2>2, AlignedSizeBound, AllocatorAssumption DEF AllocateOutOfMemory, AlignedSize, Promised!Rounded
    <3>2. \A a \in Ptr : ~Promised!Gap(a, Promised!Rounded(n))
      BY <2>2, <3>1, RefusedOnlyWhenFull, Zenon DEF AllocateOutOfMemory
    <3> QED BY <2>2, <3>1, <3>2, Zenon
            DEF AllocateOutOfMemory, Promised!Refuse, Promised!Allocate, Live, Result, Promised!Result
  <2>3. ASSUME NEW n \in Requests, AllocateBlock(n) PROVE Promised!Next
    BY <2>3, TakeGrants, Zenon
  <2>4. ASSUME NEW p \in Ptr, DeallocateUnknown(p) PROVE Promised!Next
    BY <2>4, Zenon DEF DeallocateUnknown, Promised!Reject, Live, Result, Promised!Result
  <2>5. ASSUME NEW p \in Ptr, DeallocateBlock(p) PROVE Promised!Next
    BY <2>5, FreeGivesBack, Zenon
  <2>6. CASE UNCHANGED vars
    BY <2>6, Zenon DEF vars, Promised!vars, Live
  <2> QED BY <2>1, <2>2, <2>3, <2>4, <2>5, <2>6, Zenon DEF Next
<1> QED BY <1>1, <1>2, InitIInv, NextIInv, AllocatorAlignment, PTL
        DEF Spec, ImplementsGpuMemory, Promised!Spec

-----------------------------------------------------------------------------
(***************************************************************************)
(* The table of a GROUP BY.                                                *)
(***************************************************************************)
-----------------------------------------------------------------------------
(* The inductive invariant *)

\* The first d slots that k is looked for in hold other keys.
Passed(k, d) ==
    \A e \in 0..d - 1, s \in Reserved..size - 1 : s = Index(k, e) => Occupied(s) /\ KeyAt(s) # k

\* A key is found in its slot: by probing, all slots before it are passed.
Reachable(k, s) == \E d \in 0..Capacity - 1 : Index(k, d) = s /\ Passed(k, d)

SlotsReachable ==
    \A s \in Reserved..size - 1 : \A k : Occupied(s) /\ k = KeyAt(s) =>
        IsKey(k) /\ (Regular(k) => Reachable(k, s))

RowsAreInput == \A i \in 1..Len(rows) : \A k : k = rows[i].key => IsNullKey(k) \/ IsKey(k)

\* A thread whose row has key k.
ThreadOK(t) ==
    /\ pc[t] \in {"look", "claim", "aggregate", "swap"} => cur[t] < Len(rows)
    /\ \A k : pc[t] \in {"look", "claim"} /\ k = Key(t) =>
          ~IsNullKey(k) /\ (Regular(k) => Passed(k, probe[t]))
    /\ \A k : pc[t] = "claim" /\ k = Key(t) => HasProbe(t) /\ Usable(Index(k, probe[t]))
    /\ \A k, s : pc[t] \in {"aggregate", "swap"} /\ k = Key(t) /\ Regular(k) /\ s = found[t] =>
          s \in SlotIds /\ Occupied(s) /\ (IF s < Reserved THEN k = Null ELSE KeyAt(s) = k)

TableInv ==
    /\ TableTypeOK
    /\ ~undefined =>
          /\ SlotsReachable
          /\ running => RowsAreInput /\ \A t \in Threads : ThreadOK(t)
          /\ ~running /\ ~full /\ kind # "numeric" => \A s \in SlotIds : slots[s] < 0
          /\ FullOnlyWhenFull


-----------------------------------------------------------------------------
(* Arithmetic of probing *)

\* Remainders of hashes and of probing steps are slots.
LEMMA RemRange ==
    ASSUME NEW x \in Nat, NEW n \in Nat \ {0}
    PROVE  Rem(x, n) \in 0..n - 1
BY SMT DEF Rem

\* A number below n is its own remainder, and so is one that is n larger.
LEMMA RemSmall ==
    ASSUME NEW n \in Nat \ {0}, NEW x \in 0..n - 1
    PROVE  Rem(x, n) = x /\ Rem(x + n, n) = x
BY SMT DEF Rem

\* A regular key is looked for in slots of the table.
LEMMA IndexRange ==
    ASSUME TableTypeOK, NEW k, IsKey(k), Regular(k), Capacity > 0, NEW j \in Nat
    PROVE  Hash(k) \in 0..Capacity - 1 /\ Index(k, j) \in Reserved..size - 1
<1>1. Capacity \in Nat \ {0} /\ Reserved \in {0, 1} /\ size = Capacity + Reserved
  BY DEF TableTypeOK, Capacity, Reserved
<1>2. HashCode(k) \in Int /\ HashCode(k) # MinInt
  BY Zenon DEF IsKey, Regular
<1>3. Abs(HashCode(k)) \in Nat
  BY <1>2 DEF Abs
<1>4. Hash(k) \in 0..Capacity - 1
  BY <1>1, <1>3, RemRange, Zenon DEF Hash
<1>5. Hash(k) + j \in Nat
  BY <1>1, <1>4
<1>6. Rem(Hash(k) + j, Capacity) \in 0..Capacity - 1
  BY <1>1, <1>5, RemRange, Zenon
<1>7. Index(k, j) \in Reserved..size - 1
  BY <1>1, <1>6 DEF Index
<1> QED
  BY <1>4, <1>7, Zenon

\* Probing visits every slot: a thread that gives up has seen them all.
LEMMA ProbingCoversTable ==
    ASSUME TableTypeOK, NEW k, IsKey(k), Regular(k), NEW s \in Reserved..size - 1
    PROVE  \E d \in 0..Capacity - 1 : Index(k, d) = s
<1>1. Capacity \in Nat \ {0} /\ Reserved \in {0, 1} /\ size = Capacity + Reserved
  BY DEF TableTypeOK, Capacity, Reserved
<1> DEFINE n == Capacity
           h == Hash(k)
           x == s - Reserved
<1>2. h \in 0..n - 1 /\ x \in 0..n - 1
  BY <1>1, IndexRange
<1>3. Rem(x, n) = x /\ Rem(x + n, n) = x
  BY <1>1, <1>2, RemSmall, Zenon
<1> HIDE DEF n, h, x
<1>4. CASE h <= x
  <2>1. x - h \in 0..n - 1 /\ h + (x - h) = x
    BY <1>1, <1>2, <1>4 DEF n
  <2>2. Index(k, x - h) = s
    BY <2>1, <1>1, <1>3 DEF Index, n, h, x
  <2> QED
    BY <2>1, <2>2, Zenon DEF n
<1>5. CASE h > x
  <2>1. x - h + n \in 0..n - 1 /\ h + (x - h + n) = x + n
    BY <1>1, <1>2, <1>5 DEF n
  <2>2. Index(k, x - h + n) = s
    BY <2>1, <1>1, <1>3 DEF Index, n, h, x
  <2> QED
    BY <2>1, <2>2, Zenon DEF n
<1> QED
  BY <1>2, <1>4, <1>5, <1>1 DEF n

-----------------------------------------------------------------------------
(* What a step of a thread keeps *)

\* Occupied slots keep their keys: slots are written once.
SlotsKept ==
    /\ kind' = kind /\ size' = size
    /\ \A s \in SlotIds : Occupied(s) => Occupied(s)' /\ (s >= Reserved => KeyAt(s)' = KeyAt(s))

\* The slots that keys are hashed to are slots, the others are reserved.
LEMMA SlotRange ==
    ASSUME TableTypeOK, NEW s
    PROVE  /\ s \in Reserved .. size - 1 => s \in SlotIds
           /\ s \in SlotIds /\ ~(s < Reserved) => s >= Reserved
<1>1. Reserved \in {0, 1}
  BY Zenon DEF Reserved
<1>2. size \in Nat
  BY Zenon DEF TableTypeOK
<1> QED
  BY <1>1, <1>2 DEF SlotIds

\* What keys and slots mean depends on the kind and the size of the table only.
LEMMA SameTable ==
    ASSUME kind' = kind, size' = size
    PROVE  /\ Reserved' = Reserved /\ Capacity' = Capacity /\ SlotIds' = SlotIds /\ Empty' = Empty
           /\ \A k : (IsKey(k)' <=> IsKey(k)) /\ (IsNullKey(k)' <=> IsNullKey(k))
           /\ \A k : (Regular(k)' <=> Regular(k))
           /\ \A k, j : Index(k, j)' = Index(k, j)
           /\ \A s : Usable(s)' <=> Usable(s)
<1>1. Reserved' = Reserved /\ SlotIds' = SlotIds /\ Empty' = Empty
  BY Zenon DEF Reserved, SlotIds, Empty
<1>2. Capacity' = Capacity
  BY <1>1, Zenon DEF Capacity
<1>3. ASSUME NEW k PROVE HashCode(k)' = HashCode(k) /\ (IsNullKey(k)' <=> IsNullKey(k))
  BY Zenon DEF HashCode, IsNullKey
<1>4. ASSUME NEW k PROVE Hash(k)' = Hash(k)
  BY <1>2, <1>3, Zenon DEF Hash
<1>5. ASSUME NEW k, NEW j PROVE Index(k, j)' = Index(k, j)
  BY <1>1, <1>2, <1>4, Zenon DEF Index
<1>6. ASSUME NEW k PROVE (IsKey(k)' <=> IsKey(k)) /\ (Regular(k)' <=> Regular(k))
  BY <1>3, Zenon DEF IsKey, Regular
<1>7. ASSUME NEW s PROVE Usable(s)' <=> Usable(s)
  BY Zenon DEF Usable
<1> QED
  BY <1>1, <1>2, <1>3, <1>5, <1>6, <1>7, Zenon

\* What a thread has passed stays passed, whatever the others do.
LEMMA PassedKept ==
    ASSUME TableTypeOK, SlotsKept, NEW k, NEW d, Passed(k, d)
    PROVE  Passed(k, d)'
<1>1. kind' = kind /\ size' = size /\ Reserved' = Reserved
  BY SameTable, Zenon DEF SlotsKept
<1> SUFFICES ASSUME NEW e \in 0..d - 1, NEW s \in Reserved..size - 1, s = Index(k, e)'
             PROVE  (Occupied(s) /\ KeyAt(s) # k)'
  BY <1>1, Zenon DEF Passed
<1>2. s = Index(k, e)
  BY <1>1, SameTable, Zenon
<1>3. s \in SlotIds /\ s >= Reserved
  BY DEF SlotIds, Reserved, TableTypeOK
<1>4. Occupied(s) /\ KeyAt(s) # k
  BY <1>2, Zenon DEF Passed
<1> QED
  BY <1>3, <1>4, Zenon DEF SlotsKept

\* A key that is found in its slot is found there after any thread's step.
LEMMA ReachableKept ==
    ASSUME TableTypeOK, SlotsKept, NEW k, NEW s, Reachable(k, s)
    PROVE  Reachable(k, s)'
<1>1. PICK d \in 0..Capacity - 1 : Index(k, d) = s /\ Passed(k, d)
  BY Zenon DEF Reachable
<1>3. Passed(k, d)'
  BY <1>1, PassedKept, Zenon
<1>4. Index(k, d)' = s /\ Capacity' = Capacity
  BY <1>1, SameTable, Zenon DEF SlotsKept
<1> QED
  BY <1>1, <1>3, <1>4, Zenon DEF Reachable

\* All keys stay reachable, when the slots that become occupied are.
LEMMA SlotsStayReachable ==
    ASSUME TableTypeOK, SlotsKept, SlotsReachable,
           \A s \in Reserved..size - 1 : \A k : Occupied(s)' /\ ~Occupied(s) /\ k = KeyAt(s)' =>
               IsKey(k) /\ (Regular(k) => Reachable(k, s)')
    PROVE  SlotsReachable'
<1>1. kind' = kind /\ size' = size /\ Reserved' = Reserved
  BY SameTable, Zenon DEF SlotsKept
<1> SUFFICES ASSUME NEW s \in Reserved..size - 1, NEW k, Occupied(s)', k = KeyAt(s)'
             PROVE  (IsKey(k) /\ (Regular(k) => Reachable(k, s)))'
  BY <1>1, Zenon DEF SlotsReachable
<1>2. (IsKey(k)' <=> IsKey(k)) /\ (Regular(k)' <=> Regular(k))
  BY <1>1, SameTable, Zenon
<1>3. CASE ~Occupied(s)
  BY <1>2, <1>3, Zenon
<1>4. CASE Occupied(s)
  <2>1. s \in SlotIds /\ s >= Reserved
    BY DEF TableTypeOK, Reserved, SlotIds
  <2>2. k = KeyAt(s)
    BY <2>1, <1>4, Zenon DEF SlotsKept
  <2>3. IsKey(k) /\ (Regular(k) => Reachable(k, s))
    BY <2>2, <1>4, Zenon DEF SlotsReachable
  <2> QED
    BY <2>3, <1>2, ReachableKept, Zenon
<1> QED
  BY <1>3, <1>4, Zenon

\* The other threads are not disturbed by a step.
LEMMA OthersKept ==
    ASSUME TableTypeOK, SlotsKept, rows' = rows, NEW u \in Threads, ThreadOK(u),
           pc'[u] = pc[u], cur'[u] = cur[u], probe'[u] = probe[u], found'[u] = found[u]
    PROVE  ThreadOK(u)'
<1>1. kind' = kind /\ size' = size /\ rows' = rows
  BY Zenon DEF SlotsKept
<1>2. Key(u)' = Key(u) /\ (HasProbe(u)' <=> HasProbe(u))
  BY <1>1, SameTable, Zenon DEF Key, Row, HasProbe
<1>3. pc'[u] \in {"look", "claim", "aggregate", "swap"} => cur'[u] < Len(rows')
  BY <1>1, Zenon DEF ThreadOK
<1>4. (\A k : pc[u] \in {"look", "claim"} /\ k = Key(u) =>
          ~IsNullKey(k) /\ (Regular(k) => Passed(k, probe[u])))'
  <2> SUFFICES ASSUME NEW k, pc'[u] \in {"look", "claim"}, k = Key(u)'
               PROVE  (~IsNullKey(k) /\ (Regular(k) => Passed(k, probe[u])))'
    OBVIOUS
  <2>1. ~IsNullKey(k) /\ (Regular(k) => Passed(k, probe[u]))
    BY <1>2, Zenon DEF ThreadOK
  <2>2. (IsNullKey(k)' <=> IsNullKey(k)) /\ (Regular(k)' <=> Regular(k))
    BY <1>1, SameTable, Zenon
  <2>3. PICK d : d = probe[u] /\ d = probe'[u]
    BY Zenon
  <2>4. Passed(k, d) => Passed(k, d)'
    BY PassedKept, Zenon
  <2> QED
    BY <2>1, <2>2, <2>3, <2>4, Zenon DEF Passed
<1>5. (\A k : pc[u] = "claim" /\ k = Key(u) => HasProbe(u) /\ Usable(Index(k, probe[u])))'
  BY <1>1, <1>2, SameTable, Zenon DEF ThreadOK, Usable, Index, Hash, HashCode, Capacity, Reserved
<1>6. (\A k, s : pc[u] \in {"aggregate", "swap"} /\ k = Key(u) /\ Regular(k) /\ s = found[u] =>
          s \in SlotIds /\ Occupied(s) /\ (IF s < Reserved THEN k = Null ELSE KeyAt(s) = k))'
  <2> SUFFICES ASSUME NEW k, NEW s, pc'[u] \in {"aggregate", "swap"}, k = Key(u)', Regular(k)', s = found'[u]
               PROVE  (s \in SlotIds /\ Occupied(s) /\ (IF s < Reserved THEN k = Null ELSE KeyAt(s) = k))'
    OBVIOUS
  <2>1. Regular(k) /\ Reserved' = Reserved /\ SlotIds' = SlotIds
    BY <1>1, SameTable, Zenon
  <2>2. s \in SlotIds /\ Occupied(s) /\ (IF s < Reserved THEN k = Null ELSE KeyAt(s) = k)
    BY <2>1, <1>2, Zenon DEF ThreadOK
  <2>3. ASSUME ~(s < Reserved) PROVE s >= Reserved
    BY <2>2, <2>3, SlotRange, Zenon
  <2> QED
    BY <2>1, <2>2, <2>3, Zenon DEF SlotsKept
<1> QED
  BY <1>3, <1>4, <1>5, <1>6, Zenon DEF ThreadOK

\* The registers of the threads other than t.
OnlyThread(t) ==
    \A u \in Threads \ {t} :
        pc'[u] = pc[u] /\ cur'[u] = cur[u] /\ probe'[u] = probe[u] /\ found'[u] = found[u]

\* A step of one thread keeps the invariant when it keeps it for the thread
\* itself and for the slot it claims.
LEMMA StepKeepsInvariant ==
    ASSUME TableInv, running, ~undefined, NEW t \in Threads, TableTypeOK', SlotsKept, rows' = rows,
           running' = running, SlotsReachable', ThreadOK(t)', OnlyThread(t), full' = full \/ FullOnlyWhenFull'
    PROVE  TableInv'
<1>1. kind' = kind /\ size' = size /\ rows' = rows
  BY Zenon DEF SlotsKept
<1>2. TableTypeOK /\ SlotsReachable /\ RowsAreInput /\ (\A u \in Threads : ThreadOK(u)) /\ FullOnlyWhenFull
  BY Zenon DEF TableInv
<1>3. RowsAreInput'
  <2> SUFFICES ASSUME NEW i \in 1..Len(rows), NEW k, k = rows[i].key
               PROVE  (IsNullKey(k) \/ IsKey(k))'
    BY <1>1, Zenon DEF RowsAreInput
  <2>1. IsNullKey(k) \/ IsKey(k)
    BY <1>2, Zenon DEF RowsAreInput
  <2> QED
    BY <2>1, <1>1, SameTable, Zenon
<1>4. ASSUME NEW u \in Threads PROVE ThreadOK(u)'
  <2>1. CASE u = t
    BY <2>1, Zenon
  <2>2. CASE u # t
    BY <2>2, <1>2, OthersKept, Zenon DEF OnlyThread
  <2> QED
    BY <2>1, <2>2, Zenon
<1>5. FullOnlyWhenFull'
  <2>1. CASE full' = full
    <3> SUFFICES ASSUME full', ~undefined', \A i \in 1..Len(rows)' : Regular(rows[i].key)',
                        NEW s \in (Reserved..size - 1)'
                 PROVE  Occupied(s)'
      BY Zenon DEF FullOnlyWhenFull
    <3>1. Reserved' = Reserved /\ s \in Reserved..size - 1 /\ s \in SlotIds
      BY <1>1, <1>2, SameTable, SlotRange, Zenon
    <3>2. \A i \in 1..Len(rows) : Regular(rows[i].key)
      BY <1>1, Zenon DEF Regular, IsNullKey, HashCode
    <3>3. Occupied(s)
      BY <2>1, <3>1, <3>2, <1>2, Zenon DEF FullOnlyWhenFull
    <3> QED
      BY <3>1, <3>3, Zenon DEF SlotsKept
  <2> QED
    BY <2>1, Zenon
<1> QED
  BY <1>3, <1>4, <1>5, Zenon DEF TableInv

\* Actions that leave the slots and the input alone.
LEMMA UnchangedSlotsKept ==
    ASSUME UNCHANGED <<kind, size, rows, slots, buffer>>, TableTypeOK, SlotsReachable
    PROVE  SlotsKept /\ SlotsReachable'
<1>1. \A s : (Occupied(s)' <=> Occupied(s)) /\ KeyAt(s)' = KeyAt(s)
  BY Zenon DEF Occupied, KeyAt, Row, Empty
<1>2. SlotsKept
  BY <1>1, Zenon DEF SlotsKept
<1> QED
  BY <1>1, <1>2, SlotsStayReachable, Zenon

-----------------------------------------------------------------------------
(* The steps of a thread *)

\* What is known when a thread takes a step.
Known(t) ==
    /\ TableTypeOK /\ SlotsReachable /\ ThreadOK(t) /\ RowsAreInput /\ Stride \in Nat
    /\ cur[t] \in Nat /\ probe[t] \in Nat /\ Capacity \in Int /\ size \in Nat
    /\ Reserved \in {0, 1} /\ size = Capacity + Reserved
    /\ pc[t] \in {"look", "claim"} => Key(t) = rows[cur[t] + 1].key /\ IsKey(Key(t))

\* The invariant says so while the kernel runs.
LEMMA StepContext ==
    ASSUME TableInv, running, ~undefined, NEW t \in Threads
    PROVE  Known(t)
<1>1. TableTypeOK /\ SlotsReachable /\ ThreadOK(t) /\ RowsAreInput /\ Stride \in Nat
  BY LaunchAssumption, Zenon DEF TableInv
<1>2. /\ cur[t] \in Nat /\ probe[t] \in Nat /\ Capacity \in Int /\ size \in Nat
      /\ Reserved \in {0, 1} /\ size = Capacity + Reserved
  BY <1>1 DEF TableTypeOK, Capacity, Reserved
<1>3. ASSUME pc[t] \in {"look", "claim"} PROVE Key(t) = rows[cur[t] + 1].key /\ IsKey(Key(t))
  <2>1. PICK k : k = Key(t)
    BY Zenon
  <2>2. k = rows[cur[t] + 1].key
    BY <2>1, Zenon DEF Key, Row
  <2>3. cur[t] < Len(rows) /\ ~IsNullKey(k)
    BY <1>1, <1>3, <2>1, Zenon DEF ThreadOK
  <2>4. cur[t] + 1 \in 1..Len(rows)
    BY <1>1, <1>2, <2>3 DEF TableTypeOK
  <2>5. IsKey(k)
    BY <1>1, <2>2, <2>3, <2>4, Zenon DEF RowsAreInput
  <2> QED
    BY <2>1, <2>2, <2>5, Zenon
<1> QED
  BY <1>1, <1>2, <1>3, Zenon DEF Known

\* The types of a step that leaves the table and the input alone.
LEMMA TypesKept ==
    ASSUME TableTypeOK, UNCHANGED <<kind, op, size, lanes, slots, buffer, rows, running, undefined>>,
           full' \in BOOLEAN, DOMAIN old' = Threads,
           pc' \in [Threads -> ThreadStates],
           cur' \in [Threads -> Nat], probe' \in [Threads -> Nat], found' \in [Threads -> Int]
    PROVE  TableTypeOK'
BY Zenon DEF TableTypeOK, SlotIds, Empty

\* A row is taken.
LEMMA TakeRowInv ==
    ASSUME TableInv, running, ~undefined, NEW t \in Threads, TakeRow(t)
    PROVE  TableInv'
<1>a. TableTypeOK /\ SlotsReachable /\ ThreadOK(t)
  BY StepContext, Zenon DEF Known
<1>b. /\ Stride \in Nat /\ cur[t] \in Nat /\ probe[t] \in Nat /\ Capacity \in Int /\ size \in Nat
      /\ Reserved \in {0, 1} /\ size = Capacity + Reserved
  BY StepContext, Zenon DEF Known
<1>c. pc[t] \in {"look", "claim"} => Key(t) = rows[cur[t] + 1].key /\ IsKey(Key(t))
  BY StepContext, Zenon DEF Known
<1>1. UNCHANGED <<kind, size, rows, slots, buffer, running, full, undefined>>
  BY Zenon DEF TakeRow, tableVars
<1>2. SlotsKept /\ SlotsReachable'
  BY <1>1, UnchangedSlotsKept, <1>a, Zenon
<1>3. TableTypeOK'
  BY <1>1, <1>a, <1>b, Zenon DEF TableTypeOK, ThreadStates, TakeRow, SlotIds, Empty, tableVars
<1>4. OnlyThread(t)
  BY <1>a, <1>b, Zenon DEF TakeRow, OnlyThread, TableTypeOK
<1>5. ThreadOK(t)'
  <2>1. pc'[t] = "look" /\ probe'[t] = 0 /\ cur'[t] = cur[t] /\ cur[t] < Len(rows)
    BY <1>a, <1>b, Zenon DEF TakeRow, HasRow, TableTypeOK
  <2>2. ~IsNullKey(Key(t)) /\ Key(t)' = Key(t)
    BY <1>1, Zenon DEF TakeRow, Key, Row
  <2>3. ASSUME NEW k, k = Key(t)' PROVE ~IsNullKey(k)' /\ Passed(k, probe[t])'
    BY <2>1, <2>2, <2>3, <1>1 DEF Passed, IsNullKey
  <2> QED
    BY <2>1, <2>3, <1>1, <1>a, Zenon DEF ThreadOK
<1> QED
  BY <1>1, <1>2, <1>3, <1>4, <1>5, StepKeepsInvariant, Zenon

\* A thread leaves the loop over rows.
LEMMA LeaveInv ==
    ASSUME TableInv, running, ~undefined, NEW t \in Threads, Leave(t)
    PROVE  TableInv'
<1>a. TableTypeOK /\ SlotsReachable /\ ThreadOK(t)
  BY StepContext, Zenon DEF Known
<1>b. /\ Stride \in Nat /\ cur[t] \in Nat /\ probe[t] \in Nat /\ Capacity \in Int /\ size \in Nat
      /\ Reserved \in {0, 1} /\ size = Capacity + Reserved
  BY StepContext, Zenon DEF Known
<1>c. pc[t] \in {"look", "claim"} => Key(t) = rows[cur[t] + 1].key /\ IsKey(Key(t))
  BY StepContext, Zenon DEF Known
<1>1. UNCHANGED <<kind, size, rows, slots, buffer, running, full, undefined>>
  BY Zenon DEF Leave, tableVars
<1>2. SlotsKept /\ SlotsReachable'
  BY <1>1, UnchangedSlotsKept, <1>a, Zenon
<1>3. TableTypeOK'
  BY <1>1, <1>a, <1>b, Zenon DEF TableTypeOK, ThreadStates, Leave, SlotIds, Empty, tableVars
<1>4. OnlyThread(t)
  BY <1>a, <1>b, Zenon DEF Leave, OnlyThread, TableTypeOK
<1>5. ThreadOK(t)'
  BY <1>a, <1>b, Zenon DEF Leave, ThreadOK, TableTypeOK
<1> QED
  BY <1>1, <1>2, <1>3, <1>4, <1>5, StepKeepsInvariant, Zenon

\* A thread that has tried all slots has seen a key in every one of them.
LEMMA NoSlotInv ==
    ASSUME TableInv, running, ~undefined, NEW t \in Threads, NoSlot(t)
    PROVE  TableInv'
<1>a. TableTypeOK /\ SlotsReachable /\ ThreadOK(t)
  BY StepContext, Zenon DEF Known
<1>b. /\ Stride \in Nat /\ cur[t] \in Nat /\ probe[t] \in Nat /\ Capacity \in Int /\ size \in Nat
      /\ Reserved \in {0, 1} /\ size = Capacity + Reserved
  BY StepContext, Zenon DEF Known
<1>c. pc[t] \in {"look", "claim"} => Key(t) = rows[cur[t] + 1].key /\ IsKey(Key(t))
  BY StepContext, Zenon DEF Known
<1>1. UNCHANGED <<kind, size, rows, slots, buffer, running, undefined>>
  BY Zenon DEF NoSlot, tableVars
<1>2. SlotsKept /\ SlotsReachable'
  BY <1>1, UnchangedSlotsKept, <1>a, Zenon
<1>3. TableTypeOK'
  BY <1>1, <1>a, <1>b DEF TableTypeOK, ThreadStates, NoSlot, SlotIds, Empty, tableVars
<1>4. OnlyThread(t)
  BY <1>a, <1>b, Zenon DEF NoSlot, OnlyThread, TableTypeOK
<1>5. ThreadOK(t)'
  BY <1>a, <1>b, Zenon DEF NoSlot, ThreadOK, TableTypeOK
<1>6. FullOnlyWhenFull'
  <2> SUFFICES ASSUME \A i \in 1..Len(rows)' : Regular(rows[i].key)', NEW s \in (Reserved..size - 1)'
               PROVE  Occupied(s)'
    BY Zenon DEF FullOnlyWhenFull
  <2>1. s \in Reserved..size - 1
    BY <1>1, SameTable, Zenon
  <2>2. PICK k : k = Key(t) /\ k = rows[cur[t] + 1].key /\ IsKey(k)
    BY <1>b, <1>c, Zenon DEF NoSlot
  <2>3. cur[t] + 1 \in 1..Len(rows)
    BY <1>a, <1>b DEF NoSlot, ThreadOK, TableTypeOK
  <2>4. Regular(k)
    BY <1>1, <2>2, <2>3, SMTT(30) DEF Regular, IsNullKey, HashCode
  <2>5. Passed(k, probe[t]) /\ ~(probe[t] < Capacity)
    <3>1. pc[t] = "look" /\ ~HasProbe(t)
      BY Zenon DEF NoSlot
    <3>2. Passed(k, probe[t])
      BY <3>1, <2>2, <2>4, <1>a, Zenon DEF ThreadOK
    <3> QED
      BY <3>1, <3>2, Zenon DEF HasProbe
  <2>6. PICK d \in 0..Capacity - 1 : Index(k, d) = s
    BY <2>1, <2>2, <2>4, ProbingCoversTable, <1>a, <1>b, Zenon
  <2>7. d \in 0..probe[t] - 1
    <3>1. probe[t] \in Nat /\ Capacity \in Int /\ ~(probe[t] < Capacity) /\ d \in 0..Capacity - 1
      BY <2>5, <2>6, <1>b, Zenon
    <3> QED
      BY <3>1
  <2>8. Occupied(s)
    BY <2>1, <2>5, <2>6, <2>7, Zenon DEF Passed
  <2> QED
    BY <2>8, <1>1, Zenon DEF Occupied, Empty
<1> QED
  BY <1>1, <1>2, <1>3, <1>4, <1>5, <1>6, StepKeepsInvariant, Zenon

\* A slot with another key, in Look and in Claim.
PassSlot(t) ==
    /\ pc[t] \in {"look", "claim"} /\ OtherKeyAt(t, Index(Key(t), probe[t])) /\ Advance(t)
    /\ UNCHANGED <<kind, op, size, lanes, slots, buffer, rows, running, full, cur, old, undefined>>

\* The slot is passed.
LEMMA AdvanceInv ==
    ASSUME TableInv, running, ~undefined, NEW t \in Threads, PassSlot(t)
    PROVE  TableInv'
<1>a. TableTypeOK /\ SlotsReachable /\ ThreadOK(t)
  BY StepContext, Zenon DEF Known
<1>b. /\ Stride \in Nat /\ cur[t] \in Nat /\ probe[t] \in Nat /\ Capacity \in Int /\ size \in Nat
      /\ Reserved \in {0, 1} /\ size = Capacity + Reserved
  BY StepContext, Zenon DEF Known
<1>c. pc[t] \in {"look", "claim"} => Key(t) = rows[cur[t] + 1].key /\ IsKey(Key(t))
  BY StepContext, Zenon DEF Known
<1>d. UNCHANGED <<kind, op, size, lanes, slots, buffer, rows, running, full, cur, old, undefined>>
  BY Zenon DEF PassSlot
<1>e. pc[t] \in {"look", "claim"} /\ OtherKeyAt(t, Index(Key(t), probe[t]))
  BY Zenon DEF PassSlot
<1>1. SlotsKept /\ SlotsReachable'
  BY <1>a, <1>d, UnchangedSlotsKept, Zenon
<1>2. pc' = [pc EXCEPT ![t] = "look"] /\ probe' = [probe EXCEPT ![t] = probe[t] + 1] /\ found' = found
  BY SMTT(30) DEF PassSlot, Advance
<1>3. TableTypeOK'
  <2>1. pc' \in [Threads -> ThreadStates]
    BY <1>a, <1>2, Zenon DEF TableTypeOK, ThreadStates
  <2>2. probe' \in [Threads -> Nat]
    BY <1>a, <1>b, <1>2 DEF TableTypeOK
  <2> QED
    BY <1>a, <1>d, <1>2, <2>1, <2>2, TypesKept, Zenon DEF TableTypeOK
<1>4. OnlyThread(t)
  BY <1>a, <1>d, <1>2, SMTT(30) DEF OnlyThread, TableTypeOK
<1>5. ThreadOK(t)'
  <2>0. IsKey(Key(t))
    BY <1>c, <1>e, Zenon
  <2>1. PICK k : k = Key(t) /\ IsKey(k)
    BY <2>0, Zenon
  <2>2. k = Key(t)' /\ cur'[t] < Len(rows')
    BY <1>a, <1>d, <1>e, <2>1, Zenon DEF ThreadOK, Key, Row
  <2>3. ~IsNullKey(k)' /\ (Regular(k)' <=> Regular(k))
    BY <1>a, <1>d, <1>e, <2>1, SameTable, Zenon DEF ThreadOK
  <2>4. Regular(k) => Passed(k, probe[t])
    BY <1>a, <1>e, <2>1, Zenon DEF ThreadOK
  <2>5. PICK p, d : p = probe[t] /\ d = p + 1 /\ p \in Nat
    BY <1>b, Zenon
  <2>6. ASSUME Regular(k) PROVE Passed(k, d)
    <3> SUFFICES ASSUME NEW e \in 0..d - 1, NEW s \in Reserved..size - 1, s = Index(k, e)
                 PROVE  Occupied(s) /\ KeyAt(s) # k
      BY Zenon DEF Passed
    <3>1. CASE e \in 0..p - 1
      BY <3>1, <2>4, <2>5, <2>6, Zenon DEF Passed
    <3>2. CASE e = p
      BY <3>2, <1>e, <2>1, <2>5, Zenon DEF OtherKeyAt
    <3> QED
      BY <2>5, <3>1, <3>2
  <2>7. pc'[t] = "look" /\ probe'[t] = d
    BY <1>a, <1>2, <2>5, Zenon DEF TableTypeOK
  <2>8. Regular(k) => Passed(k, d)'
    BY <1>a, <2>6, <1>1, PassedKept, Zenon
  <2>9. Regular(k) => Passed(k, probe[t])'
    BY <2>7, <2>8, Zenon DEF Passed
  <2> QED
    BY <2>2, <2>3, <2>7, <2>9, Zenon DEF ThreadOK
<1> QED
  BY <1>d, <1>1, <1>3, <1>4, <1>5, StepKeepsInvariant, Zenon

\* A slot is read: it is passed when another key is in it.
LEMMA LookInv ==
    ASSUME TableInv, running, ~undefined, NEW t \in Threads, Look(t)
    PROVE  TableInv'
<1>a. TableTypeOK /\ SlotsReachable /\ ThreadOK(t)
  BY StepContext, Zenon DEF Known
<1>b. /\ Stride \in Nat /\ cur[t] \in Nat /\ probe[t] \in Nat /\ Capacity \in Int /\ size \in Nat
      /\ Reserved \in {0, 1} /\ size = Capacity + Reserved
  BY StepContext, Zenon DEF Known
<1>c. pc[t] \in {"look", "claim"} => Key(t) = rows[cur[t] + 1].key /\ IsKey(Key(t))
  BY StepContext, Zenon DEF Known
<1>1. UNCHANGED <<kind, op, size, lanes, slots, buffer, rows, running, full, cur, old, undefined>>
  BY Zenon DEF Look, tableVars
<1>2. CASE OtherKeyAt(t, Index(Key(t), probe[t])) /\ Advance(t)
  BY <1>1, <1>2, AdvanceInv, Zenon DEF Look, PassSlot
<1>3. CASE pc' = [pc EXCEPT ![t] = "claim"] /\ UNCHANGED <<probe, found>>
  <2>1. SlotsKept /\ SlotsReachable'
    BY <1>1, UnchangedSlotsKept, <1>a, SMTT(30)
  <2>2. TableTypeOK'
    <3>1. pc' \in [Threads -> ThreadStates]
      BY <1>3, <1>a, <1>b, Zenon DEF TableTypeOK, ThreadStates
    <3> QED
      BY <1>1, <1>3, <3>1, TypesKept, <1>a, <1>b, Zenon DEF TableTypeOK
  <2>3. OnlyThread(t)
    BY <1>1, <1>3, <1>a, <1>b, Zenon DEF OnlyThread, TableTypeOK
  <2>4. ThreadOK(t)'
    <3>1. PICK k : k = Key(t) /\ IsKey(k)
      BY <1>c, Zenon DEF Look
    <3>2. k = Key(t)' /\ cur'[t] < Len(rows')
      BY <1>1, <3>1, <1>a, Zenon DEF Look, ThreadOK, Key, Row
    <3>3. ~IsNullKey(k)' /\ (Regular(k)' <=> Regular(k))
      BY <1>1, <3>1, SameTable, <1>a, Zenon DEF Look, ThreadOK
    <3>4. PICK d : d = probe[t] /\ d = probe'[t]
      BY <1>3, Zenon
    <3>5. Regular(k) => Passed(k, d)
      BY <3>1, <3>4, <1>a, Zenon DEF Look, ThreadOK
    <3>6. Regular(k) => Passed(k, probe[t])'
      <4>1. Regular(k) => Passed(k, d)'
        BY <3>5, <2>1, PassedKept, <1>a, Zenon
      <4> QED
        BY <3>4, <4>1, Zenon DEF Passed
    <3>7. HasProbe(t)' /\ Usable(Index(k, probe[t]))'
      BY <1>1, <1>3, <3>1, <1>b, Zenon DEF Look, HasProbe, Usable, Index, Hash, HashCode, Capacity, Reserved
    <3>8. pc'[t] = "claim"
      BY <1>3, <1>a, <1>b, Zenon DEF TableTypeOK
    <3> QED
      BY <3>2, <3>3, <3>6, <3>7, <3>8, <1>a, Zenon DEF ThreadOK
  <2> QED
    BY <1>1, <2>1, <2>2, <2>3, <2>4, StepKeepsInvariant, Zenon
<1> QED
  BY <1>2, <1>3, Zenon DEF Look

\* The steps of the aggregation leave the keys alone.
LEMMA AggregateInv ==
    ASSUME TableInv, running, ~undefined, NEW t \in Threads,
           SkipNull(t) \/ Add(t) \/ Read(t) \/ Exchange(t)
    PROVE  TableInv'
<1>a. TableTypeOK /\ SlotsReachable /\ ThreadOK(t)
  BY StepContext, Zenon DEF Known
<1>b. /\ Stride \in Nat /\ cur[t] \in Nat /\ probe[t] \in Nat /\ Capacity \in Int /\ size \in Nat
      /\ Reserved \in {0, 1} /\ size = Capacity + Reserved
  BY StepContext, Zenon DEF Known
<1>c. pc[t] \in {"look", "claim"} => Key(t) = rows[cur[t] + 1].key /\ IsKey(Key(t))
  BY StepContext, SMTT(30) DEF Known
<1>1. UNCHANGED <<kind, op, lanes, size, rows, slots, buffer, running, full, undefined, probe, found>>
  BY Zenon DEF SkipNull, Add, Read, Exchange, tableVars
<1>2. SlotsKept /\ SlotsReachable'
  BY <1>1, UnchangedSlotsKept, <1>a, Zenon
<1>3. \/ cur' = [cur EXCEPT ![t] = @ + Stride] /\ pc' = [pc EXCEPT ![t] = "row"]
      \/ /\ pc[t] \in {"aggregate", "swap"} /\ cur' = cur
         /\ pc' = pc \/ pc' = [pc EXCEPT ![t] = "swap"]
  BY Zenon DEF SkipNull, Add, Read, Exchange, Aggregated, NextRow
<1>4. DOMAIN old' = Threads
  BY <1>a, <1>b, Zenon DEF SkipNull, Add, Read, Exchange, TableTypeOK
<1>5. TableTypeOK'
  <2>1. /\ pc' \in [Threads -> ThreadStates]
        /\ cur' \in [Threads -> Nat]
    <3>1. pc \in [Threads -> ThreadStates] /\ cur \in [Threads -> Nat] /\ cur[t] + Stride \in Nat
      BY <1>a, <1>b DEF TableTypeOK
    <3>2. /\ [pc EXCEPT ![t] = "row"] \in [Threads -> ThreadStates]
          /\ [pc EXCEPT ![t] = "swap"] \in [Threads -> ThreadStates]
      BY <3>1, Zenon DEF ThreadStates
    <3>3. [cur EXCEPT ![t] = cur[t] + Stride] \in [Threads -> Nat]
      BY <3>1, <1>b, Zenon
    <3> QED
      BY <1>3, <3>1, <3>2, <3>3, Zenon
  <2> QED
    BY <1>1, <1>4, <2>1, TypesKept, <1>a, <1>b, Zenon DEF TableTypeOK
<1>6. OnlyThread(t)
  BY <1>1, <1>3, <1>a, <1>b, Zenon DEF OnlyThread, TableTypeOK
<1>7. ThreadOK(t)'
  <2>1. CASE pc'[t] = "row"
    BY <2>1, <1>a, Zenon DEF ThreadOK
  <2>2. CASE pc[t] \in {"aggregate", "swap"} /\ cur' = cur /\ pc'[t] \in {"aggregate", "swap"}
    <3>1. Key(t)' = Key(t) /\ cur'[t] < Len(rows')
      BY <1>1, <2>2, <1>a, Zenon DEF Key, Row, ThreadOK
    <3>2. ASSUME NEW k, NEW s, k = Key(t)', Regular(k)', s = found'[t]
          PROVE  (s \in SlotIds /\ Occupied(s) /\ (IF s < Reserved THEN k = Null ELSE KeyAt(s) = k))'
      <4>1. s \in SlotIds /\ Occupied(s) /\ (IF s < Reserved THEN k = Null ELSE KeyAt(s) = k)
        BY <1>1, <2>2, <3>1, <3>2, SameTable, <1>a, <1>b, Zenon DEF ThreadOK
      <4> QED
        BY <4>1, <1>1, <1>b, Zenon DEF Occupied, KeyAt, Row, Reserved, SlotIds, Empty
    <3> QED
      BY <2>2, <3>1, <3>2, <1>a, Zenon DEF ThreadOK
  <2> QED
    BY <1>3, <2>1, <2>2, <1>a, <1>b, Zenon DEF TableTypeOK
<1> QED
  BY <1>1, <1>2, <1>5, <1>6, <1>7, StepKeepsInvariant, Zenon

\* The first case of Claim.
ClaimEmpty(t, s) ==
    /\ pc[t] = "claim" /\ s = Index(Key(t), probe[t]) /\ ~Occupied(s)
    /\ slots' = [slots EXCEPT ![s] = Mine(t)]
    /\ found' = [found EXCEPT ![t] = s] /\ pc' = [pc EXCEPT ![t] = "aggregate"]
    /\ UNCHANGED <<kind, op, size, lanes, buffer, rows, running, full, cur, probe, old, undefined>>

\* The claim of an empty slot: the slot is one that the key is looked for in,
\* and all before it are passed.
LEMMA ClaimEmptyInv ==
    ASSUME TableInv, running, ~undefined, NEW t \in Threads, NEW s, ClaimEmpty(t, s)
    PROVE  TableInv'
<1>a. TableTypeOK /\ SlotsReachable /\ ThreadOK(t)
  BY StepContext, Zenon DEF Known
<1>b. /\ Stride \in Nat /\ cur[t] \in Nat /\ probe[t] \in Nat /\ Capacity \in Int /\ size \in Nat
      /\ Reserved \in {0, 1} /\ size = Capacity + Reserved
  BY StepContext, Zenon DEF Known
<1>c. pc[t] \in {"look", "claim"} => Key(t) = rows[cur[t] + 1].key /\ IsKey(Key(t))
  BY StepContext, Zenon DEF Known
<1>d. pc[t] = "claim" /\ s = Index(Key(t), probe[t]) /\ ~Occupied(s)
  BY SMTT(30) DEF ClaimEmpty
<1>e. UNCHANGED <<kind, op, size, lanes, buffer, rows, running, full, cur, probe, old, undefined>>
  BY Zenon DEF ClaimEmpty
<1>f. found' = [found EXCEPT ![t] = s] /\ pc' = [pc EXCEPT ![t] = "aggregate"]
  BY Zenon DEF ClaimEmpty
<1>1. PICK k : k = Key(t) /\ k = rows[cur[t] + 1].key /\ IsKey(k)
  BY <1>c, <1>d, Zenon
<1>2. s \in SlotIds /\ probe[t] < Capacity /\ cur[t] < Len(rows) /\ s = Index(k, probe[t])
  <2>1. cur[t] < Len(rows)
    BY <1>a, <1>d, Zenon DEF ThreadOK
  <2>2. HasProbe(t) /\ Usable(Index(k, probe[t])) /\ s = Index(k, probe[t])
    BY <1>a, <1>d, <1>1, Zenon DEF ThreadOK
  <2>3. s \in SlotIds
    <3>1. Usable(s)
      BY <2>2, Zenon
    <3> QED
      BY <3>1, <1>b DEF Usable, SlotIds
  <2> QED
    BY <2>1, <2>2, <2>3, Zenon DEF HasProbe
<1>3. Mine(t) \in Int /\ (kind # "numeric" => Mine(t) \in 0..Len(rows) - 1)
  <2>1. CASE kind = "numeric"
    BY <2>1, <1>1, Zenon DEF Mine, IsKey
  <2>2. CASE kind # "numeric"
    <3>1. Len(rows) \in Nat /\ Mine(t) = cur[t]
      BY <2>2, <1>a, SMTT(30) DEF Mine, TableTypeOK
    <3> QED
      BY <3>1, <1>2, <1>b
  <2> QED
    BY <2>1, <2>2, Zenon
<1>4. /\ slots' \in [SlotIds -> Int] /\ slots'[s] = Mine(t)
      /\ \A q \in SlotIds : q # s => slots'[q] = slots[q]
  <2>1. slots \in [SlotIds -> Int]
    BY <1>a, Zenon DEF TableTypeOK
  <2> QED
    BY <2>1, <1>2, <1>3, Zenon DEF ClaimEmpty
<1>5. Empty' = Empty /\ SlotIds' = SlotIds /\ Reserved' = Reserved /\ Capacity' = Capacity
  BY <1>e, SameTable, Zenon
<1>6. TableTypeOK'
  <2>1. pc' \in [Threads -> ThreadStates]
    BY <1>a, <1>f, Zenon DEF TableTypeOK, ThreadStates
  <2>2. found' \in [Threads -> Int]
    BY <1>a, <1>f, <1>2 DEF TableTypeOK, SlotIds
  <2>3. kind' # "numeric" => \A q \in SlotIds' : slots'[q] \in {Empty', KeyInBuffer} \cup 0..Len(rows') - 1
    BY <1>a, <1>e, <1>3, <1>4, <1>5, Zenon DEF TableTypeOK
  <2> QED
    BY <1>a, <1>e, <1>4, <1>5, <2>1, <2>2, <2>3, Zenon DEF TableTypeOK
<1>7. SlotsKept
  BY <1>d, <1>e, <1>4, <1>5, Zenon DEF SlotsKept, Occupied, KeyAt, Row
<1>8. KeyAt(s)' = k
  <2>1. CASE kind = "numeric"
    BY <2>1, <1>e, <1>1, <1>4, Zenon DEF KeyAt, Mine
  <2>2. CASE kind # "numeric"
    <3>1. slots'[s] = cur[t] /\ cur[t] >= 0 /\ kind' # "numeric" /\ rows' = rows
      <4>1. slots'[s] = cur[t]
        BY <2>2, <1>4, Zenon DEF Mine
      <4>2. kind' # "numeric" /\ rows' = rows
        BY <2>2, <1>e, Zenon
      <4>3. cur[t] \in Nat => cur[t] >= 0
        OBVIOUS
      <4> QED
        BY <4>1, <4>2, <4>3, <1>b, Zenon
    <3> QED
      BY <3>1, <1>1, Zenon DEF KeyAt, Row
  <2> QED
    BY <2>1, <2>2, Zenon
<1>9. Regular(k) => s \in Reserved..size - 1 /\ Passed(k, probe[t])
  <2>1. Regular(k) => Passed(k, probe[t])
    BY <1>a, <1>d, <1>1, Zenon DEF ThreadOK
  <2>2. Capacity > 0
    BY <1>b, <1>2
  <2>3. Regular(k) => Index(k, probe[t]) \in Reserved..size - 1
    BY <1>a, <1>b, <1>1, <2>2, IndexRange, Zenon
  <2> QED
    BY <1>2, <2>1, <2>3, Zenon
<1>10. Regular(k) => Occupied(s)'
  <2>1. CASE kind = "numeric"
    BY <2>1, <1>1, <1>4, <1>5, Zenon DEF Occupied, Empty, Mine, Regular, IsKey
  <2>2. CASE kind # "numeric"
    <3>1. slots'[s] = cur[t] /\ Empty' = -1
      BY <2>2, <1>4, <1>5, Zenon DEF Mine, Empty
    <3>2. cur[t] \in Nat => cur[t] # -1
      OBVIOUS
    <3> QED
      BY <3>1, <3>2, <1>b, Zenon DEF Occupied
  <2> QED
    BY <2>1, <2>2, Zenon
<1>11. SlotsReachable'
  <2>1. ASSUME NEW q \in Reserved..size - 1, Occupied(q)', ~Occupied(q)
        PROVE  q = s
    <3>1. q \in SlotIds
      BY <2>1, <1>b DEF SlotIds
    <3>2. slots'[q] # Empty /\ slots[q] = Empty
      BY <2>1, <1>5, Zenon DEF Occupied
    <3> QED
      BY <3>1, <3>2, <1>4, Zenon
  <2>2. ASSUME Regular(k) PROVE Reachable(k, s)'
    <3>1. PICK d : d = probe[t]
      BY Zenon
    <3>2. Passed(k, d)'
      BY <3>1, <2>2, <1>a, <1>7, <1>9, PassedKept, Zenon
    <3>3. Index(k, d)' = s
      BY <3>1, <1>e, <1>2, SameTable, Zenon
    <3>4. d \in 0..Capacity' - 1
      BY <3>1, <1>b, <1>2, <1>5
    <3> QED
      BY <3>2, <3>3, <3>4, Zenon DEF Reachable
  <2>3. ASSUME NEW q \in Reserved..size - 1, NEW x, Occupied(q)', ~Occupied(q), x = KeyAt(q)'
        PROVE  IsKey(x) /\ (Regular(x) => Reachable(x, q)')
    BY <2>1, <2>2, <2>3, <1>1, <1>8, Zenon
  <2> QED
    BY <2>3, <1>a, <1>7, SlotsStayReachable, Zenon
<1>12. OnlyThread(t)
  BY <1>a, <1>e, <1>f, Zenon DEF OnlyThread, TableTypeOK
<1>13. ThreadOK(t)'
  <2>1. pc'[t] = "aggregate" /\ found'[t] = s
    BY <1>a, <1>f, Zenon DEF TableTypeOK
  <2>2. (Regular(k)' <=> Regular(k)) /\ Key(t)' = k
    BY <1>e, <1>1, SameTable, Zenon DEF Key, Row
  <2>3. Regular(k) => ~(s < Reserved')
    BY <1>b, <1>5, <1>9
  <2>4. s \in SlotIds' /\ cur'[t] < Len(rows')
    BY <1>e, <1>2, <1>5, Zenon
  <2> QED
    BY <2>1, <2>2, <2>3, <2>4, <1>8, <1>10, Zenon DEF ThreadOK
<1> QED
  BY <1>e, <1>6, <1>7, <1>11, <1>12, <1>13, StepKeepsInvariant, Zenon

\* The compare-and-set finds the thread's own key, another key or no key.
LEMMA ClaimInv ==
    ASSUME TableInv, running, ~undefined, NEW t \in Threads, Claim(t)
    PROVE  TableInv'
<1>a. TableTypeOK /\ SlotsReachable /\ ThreadOK(t)
  BY StepContext, Zenon DEF Known
<1>b. /\ Stride \in Nat /\ cur[t] \in Nat /\ probe[t] \in Nat /\ Capacity \in Int /\ size \in Nat
      /\ Reserved \in {0, 1} /\ size = Capacity + Reserved
  BY StepContext, Zenon DEF Known
<1>c. pc[t] \in {"look", "claim"} => Key(t) = rows[cur[t] + 1].key /\ IsKey(Key(t))
  BY StepContext, Zenon DEF Known
<1>1. PICK s : s = Index(Key(t), probe[t])
  BY Zenon
<1>2. /\ UNCHANGED <<kind, op, size, lanes, buffer, rows, running, full, cur, old, undefined>>
      /\ pc[t] = "claim"
  BY Zenon DEF Claim
<1>3. CASE /\ ~Occupied(s) /\ slots' = [slots EXCEPT ![s] = Mine(t)]
           /\ found' = [found EXCEPT ![t] = s] /\ pc' = [pc EXCEPT ![t] = "aggregate"]
           /\ probe' = probe
  BY <1>1, <1>2, <1>3, ClaimEmptyInv, Zenon DEF ClaimEmpty
<1>4. CASE OtherKeyAt(t, s) /\ Advance(t) /\ slots' = slots
  BY <1>1, <1>2, <1>4, AdvanceInv, Zenon DEF PassSlot
<1>5. CASE /\ Occupied(s) /\ KeyAt(s) = Key(t)
           /\ found' = [found EXCEPT ![t] = s] /\ pc' = [pc EXCEPT ![t] = "aggregate"]
           /\ UNCHANGED <<slots, probe>>
  <2>1. PICK k : k = Key(t) /\ IsKey(k)
    BY <1>2, <1>c, Zenon
  <2>2. s \in SlotIds /\ s = Index(k, probe[t]) /\ Capacity > 0 /\ cur[t] < Len(rows)
    <3>1. cur[t] < Len(rows)
      BY <1>a, <1>2, Zenon DEF ThreadOK
    <3>2. HasProbe(t) /\ Usable(Index(k, probe[t])) /\ s = Index(k, probe[t])
      BY <1>a, <1>1, <1>2, <2>1, Zenon DEF ThreadOK
    <3>3. s \in SlotIds
      BY <3>2, <1>b DEF Usable, SlotIds
    <3>4. Capacity > 0
      BY <3>2, <1>b DEF HasProbe
    <3> QED
      BY <3>1, <3>2, <3>3, <3>4, Zenon
  <2>3. SlotsKept /\ SlotsReachable'
    BY <1>2, <1>5, UnchangedSlotsKept, <1>a, Zenon
  <2>4. TableTypeOK'
    <3>1. pc' \in [Threads -> ThreadStates]
      BY <1>5, <1>a, <1>b, Zenon DEF TableTypeOK, ThreadStates
    <3>2. found' \in [Threads -> Int]
      BY <1>5, <2>2, <1>a, <1>b DEF TableTypeOK, SlotIds
    <3> QED
      BY <1>2, <1>5, <3>1, <3>2, TypesKept, <1>a, <1>b, Zenon DEF TableTypeOK
  <2>5. OnlyThread(t)
    BY <1>2, <1>5, <1>a, <1>b, SMTT(30) DEF OnlyThread, TableTypeOK
  <2>6. Regular(k) => Index(k, probe[t]) \in Reserved..size - 1
    BY <2>1, <2>2, IndexRange, <1>a, <1>b, Zenon
  <2>7. ThreadOK(t)'
    <3>1. pc'[t] = "aggregate" /\ found'[t] = s /\ Key(t)' = k
      BY <1>2, <1>5, <2>1, <1>a, <1>b, Zenon DEF TableTypeOK, Key, Row
    <3>2. (Regular(k)' <=> Regular(k)) /\ Reserved' = Reserved /\ SlotIds' = SlotIds
      BY <1>2, SameTable, Zenon
    <3>3. Regular(k) => ~(s < Reserved)
      BY <2>2, <2>6, <1>a, <1>b, SMTT(30) DEF Reserved, TableTypeOK
    <3>4. Occupied(s)' /\ KeyAt(s)' = k
      BY <1>2, <1>5, <2>1, Zenon DEF Occupied, KeyAt, Row, Empty
    <3> QED
      BY <3>1, <3>2, <3>3, <3>4, <1>2, <2>2, <1>a, Zenon DEF ThreadOK
  <2> QED
    BY <1>2, <2>3, <2>4, <2>5, <2>7, StepKeepsInvariant, Zenon
<1> QED
  BY <1>1, <1>3, <1>4, <1>5, Zenon DEF Claim

\* A row with the NULL key: no other key is looked for in slot 0.
LEMMA TakeNullRowInv ==
    ASSUME TableInv, running, ~undefined, NEW t \in Threads, TakeNullRow(t)
    PROVE  TableInv'
<1>a. TableTypeOK /\ SlotsReachable /\ ThreadOK(t)
  BY StepContext, Zenon DEF Known
<1>b. /\ Stride \in Nat /\ cur[t] \in Nat /\ probe[t] \in Nat /\ Capacity \in Int /\ size \in Nat
      /\ Reserved \in {0, 1} /\ size = Capacity + Reserved
  BY StepContext, Zenon DEF Known
<1>c. pc[t] \in {"look", "claim"} => Key(t) = rows[cur[t] + 1].key /\ IsKey(Key(t))
  BY StepContext, Zenon DEF Known
<1>1. /\ UNCHANGED <<kind, op, size, lanes, buffer, rows, running, full, cur, probe, old, undefined>>
      /\ found' = [found EXCEPT ![t] = 0] /\ pc' = [pc EXCEPT ![t] = "aggregate"]
      /\ slots' = [slots EXCEPT ![0] = IF kind = "numeric" THEN 0 ELSE KeyInBuffer]
      /\ cur[t] < Len(rows) /\ IsNullKey(Key(t))
  BY <1>b, Zenon DEF TakeNullRow, HasRow
<1>2. kind # "multi" /\ Reserved = 1 /\ Key(t) = Null
  BY <1>1, Zenon DEF IsNullKey, Reserved
<1>3. Empty' = Empty /\ SlotIds' = SlotIds /\ Reserved' = Reserved
  BY <1>1, SameTable, Zenon
<1>4. 0 \in SlotIds /\ \A q \in SlotIds : q \in Int
  BY <1>a, <1>b DEF SlotIds, TableTypeOK
<1>5. /\ slots' \in [SlotIds -> Int] /\ slots'[0] = (IF kind = "numeric" THEN 0 ELSE KeyInBuffer)
      /\ \A q \in SlotIds : q # 0 => slots'[q] = slots[q]
  BY <1>1, <1>4, <1>a, <1>b DEF TableTypeOK, KeyInBuffer
<1>6. Occupied(0)'
  BY <1>3, <1>5, LowestAssumption, SMTT(30) DEF Occupied, Empty, KeyInBuffer
<1>7. TableTypeOK'
  <2>1. pc' \in [Threads -> ThreadStates]
    BY <1>1, <1>a, <1>b, Zenon DEF TableTypeOK, ThreadStates
  <2>2. found' \in [Threads -> Int]
    BY <1>1, <1>a, <1>b DEF TableTypeOK
  <2>3. kind' # "numeric" => \A q \in SlotIds' : slots'[q] \in {Empty', KeyInBuffer} \cup 0..Len(rows') - 1
    BY <1>1, <1>3, <1>5, <1>a, <1>b, Zenon DEF TableTypeOK
  <2> QED
    BY <1>1, <1>3, <1>5, <2>1, <2>2, <2>3, <1>a, <1>b, Zenon DEF TableTypeOK
<1>8. SlotsKept
  <2> SUFFICES ASSUME NEW q \in SlotIds, Occupied(q)
               PROVE  Occupied(q)' /\ (q >= Reserved => KeyAt(q)' = KeyAt(q))
    BY <1>1, Zenon DEF SlotsKept
  <2>1. CASE q = 0
    BY <2>1, <1>2, <1>6
  <2>2. CASE q # 0
    BY <2>2, <1>1, <1>3, <1>5, Zenon DEF Occupied, KeyAt, Row
  <2> QED
    BY <2>1, <2>2, Zenon
<1>9. SlotsReachable'
  <2>1. ASSUME NEW q \in Reserved..size - 1, Occupied(q)' PROVE Occupied(q)
    BY <2>1, <1>2, <1>3, <1>5, <1>a, <1>b DEF Occupied, SlotIds, TableTypeOK
  <2> QED
    BY <2>1, <1>8, SlotsStayReachable, <1>a, Zenon
<1>10. OnlyThread(t)
  BY <1>1, <1>a, <1>b, Zenon DEF OnlyThread, TableTypeOK
<1>11. ThreadOK(t)'
  <2>1. pc'[t] = "aggregate" /\ found'[t] = 0 /\ Key(t)' = Null
    BY <1>1, <1>2, <1>a, <1>b, Zenon DEF TableTypeOK, Key, Row
  <2>2. cur'[t] < Len(rows')
    BY <1>1, Zenon
  <2>3. 0 \in SlotIds' /\ Reserved' = 1
    BY <1>2, <1>3, <1>4, Zenon
  <2>4. 0 < Reserved'
    BY <2>3
  <2> QED
    BY <2>1, <2>2, <2>3, <2>4, <1>6, Zenon DEF ThreadOK
<1> QED
  BY <1>1, <1>7, <1>8, <1>9, <1>10, <1>11, StepKeepsInvariant, Zenon

\* A step of a thread.
LEMMA StepInv ==
    ASSUME TableInv, NEW t \in Threads, Step(t)
    PROVE  TableInv'
<1>1. running /\ ~undefined
  BY Zenon DEF Step
<1>2. CASE LookOutside(t)
  <2>1. undefined' = TRUE /\ UNCHANGED <<kind, op, size, lanes, slots, buffer, rows, running, full,
                                         pc, cur, probe, found, old>>
    BY <1>2, Zenon DEF LookOutside, tableVars, threadVars
  <2>2. TableTypeOK'
    BY <2>1, Zenon DEF TableInv, TableTypeOK, SlotIds, Empty
  <2> QED
    BY <2>1, <2>2, Zenon DEF TableInv
<1> QED
  BY <1>1, <1>2, TakeRowInv, TakeNullRowInv, LeaveInv, LookInv, NoSlotInv, ClaimInv, AggregateInv, Zenon
     DEF Step

-----------------------------------------------------------------------------
(* The steps of the host *)

\* The kernel is launched on new rows: no slot names a row of the last block.
LEMMA LaunchInv ==
    ASSUME TableInv, NEW r, IsInput(r), Launch(r)
    PROVE  TableInv'
<1>1. /\ ~running /\ ~full /\ ~undefined /\ running' = TRUE /\ rows' = r
      /\ UNCHANGED <<kind, op, size, lanes, slots, buffer, full, undefined>>
  BY Zenon DEF Launch, tableVars
<1>2. TableTypeOK /\ SlotsReachable /\ (kind # "numeric" => \A s \in SlotIds : slots[s] < 0)
  BY <1>1, Zenon DEF TableInv
<1>3. SlotIds' = SlotIds /\ Empty' = Empty /\ Reserved' = Reserved
  BY <1>1, SameTable, SMTT(30)
<1>4. TableTypeOK'
  <2>1. /\ pc' \in [Threads -> ThreadStates] /\ cur' \in [Threads -> Nat]
        /\ probe' \in [Threads -> Nat] /\ found' \in [Threads -> Int] /\ DOMAIN old' = Threads
    BY LaunchAssumption DEF Launch, ThreadStates, Threads
  <2>2. Len(rows') \in Nat
    BY <1>1, Zenon DEF IsInput
  <2>3. kind' # "numeric" => \A q \in SlotIds' : slots'[q] \in {Empty', KeyInBuffer} \cup 0..Len(rows') - 1
    BY <1>1, <1>2, <1>3 DEF TableTypeOK
  <2> QED
    BY <1>1, <1>2, <1>3, <2>1, <2>2, <2>3, Zenon DEF TableTypeOK
<1>5. SlotsKept
  <2>1. ASSUME NEW s \in SlotIds PROVE (Occupied(s)' <=> Occupied(s)) /\ KeyAt(s)' = KeyAt(s)
    <3>1. kind # "numeric" => ~(slots[s] >= 0)
      BY <1>2 DEF TableTypeOK
    <3> QED
      BY <3>1, <1>1, <1>3, Zenon DEF Occupied, KeyAt
  <2> QED
    BY <2>1, <1>1, Zenon DEF SlotsKept
<1>6. SlotsReachable'
  <2>1. ASSUME NEW q \in Reserved..size - 1, Occupied(q)' PROVE Occupied(q)
    BY <2>1, <1>1, <1>3, Zenon DEF Occupied
  <2> QED
    BY <2>1, <1>2, <1>5, SlotsStayReachable, Zenon
<1>7. RowsAreInput'
  BY <1>1, SameTable, Zenon DEF RowsAreInput, IsInput
<1>8. \A t \in Threads : ThreadOK(t)'
  BY Zenon DEF Launch, ThreadOK
<1>9. FullOnlyWhenFull'
  BY <1>1, Zenon DEF FullOnlyWhenFull
<1> QED
  BY <1>1, <1>4, <1>6, <1>7, <1>8, <1>9, Zenon DEF TableInv

\* The end of a block: the keys of the rows are in the key buffer.
LEMMA EndBlockInv ==
    ASSUME TableInv, EndBlock
    PROVE  TableInv'
<1>1. /\ running /\ ~undefined /\ running' = FALSE
      /\ UNCHANGED <<kind, op, size, lanes, rows, full, pc, cur, probe, found, old, undefined>>
      /\ IF full THEN UNCHANGED <<slots, buffer>> ELSE Collect
  BY Zenon DEF EndBlock, threadVars
<1>2. TableTypeOK /\ SlotsReachable /\ FullOnlyWhenFull
  BY <1>1, Zenon DEF TableInv
<1>3. SlotIds' = SlotIds /\ Empty' = Empty /\ Reserved' = Reserved
  BY <1>1, SameTable, Zenon
<1>4. \/ UNCHANGED <<slots, buffer>> /\ (full \/ kind = "numeric")
      \/ /\ kind # "numeric"
         /\ buffer' = [s \in SlotIds |-> IF slots[s] >= 0 THEN Row(slots[s]).key ELSE buffer[s]]
         /\ slots' = [s \in SlotIds |-> IF slots[s] >= 0 THEN KeyInBuffer ELSE slots[s]]
  BY <1>1, Zenon DEF Collect
<1>5. /\ slots' \in [SlotIds -> Int] /\ DOMAIN buffer' = SlotIds
      /\ kind # "numeric" => \A q \in SlotIds : slots'[q] \in {Empty, KeyInBuffer} \cup 0..Len(rows) - 1
      /\ ~full /\ kind # "numeric" => \A q \in SlotIds : slots'[q] < 0
  BY <1>2, <1>4 DEF TableTypeOK, KeyInBuffer, Empty
<1>6. TableTypeOK'
  BY <1>1, <1>2, <1>3, <1>5, Zenon DEF TableTypeOK
<1>7. ASSUME NEW s \in SlotIds
      PROVE  (Occupied(s)' <=> Occupied(s)) /\ (Occupied(s) => KeyAt(s)' = KeyAt(s))
  <2>1. CASE UNCHANGED <<slots, buffer>>
    BY <2>1, <1>1, <1>3, Zenon DEF Occupied, KeyAt, Row
  <2>2. CASE kind # "numeric" /\ ~UNCHANGED <<slots, buffer>>
    <3>1. /\ slots[s] \in Int /\ buffer'[s] = (IF slots[s] >= 0 THEN Row(slots[s]).key ELSE buffer[s])
          /\ slots'[s] = (IF slots[s] >= 0 THEN -2 ELSE slots[s])
      BY <2>2, <1>2, <1>4, Zenon DEF TableTypeOK, KeyInBuffer
    <3>2. Empty = -1 /\ kind' # "numeric"
      BY <2>2, <1>1, Zenon DEF Empty
    <3>3. Occupied(s)' <=> Occupied(s)
      BY <3>1, <3>2, <1>3, SMTT(30) DEF Occupied
    <3>4. KeyAt(s)' = KeyAt(s)
      <4>1. ~(slots'[s] >= 0)
        BY <3>1
      <4> QED
        BY <3>1, <3>2, <4>1, <2>2, Zenon DEF KeyAt
    <3> QED
      BY <3>3, <3>4, Zenon
  <2> QED
    BY <1>4, <2>1, <2>2, Zenon
<1>8. SlotsKept
  BY <1>1, <1>7, Zenon DEF SlotsKept
<1>9. SlotsReachable'
  <2>1. ASSUME NEW q \in Reserved..size - 1, Occupied(q)' PROVE Occupied(q)
    <3>1. q \in SlotIds
      BY <1>2 DEF SlotIds, Reserved, TableTypeOK
    <3> QED
      BY <2>1, <3>1, <1>7, Zenon
  <2> QED
    BY <2>1, <1>2, <1>8, SlotsStayReachable, Zenon
<1>10. FullOnlyWhenFull'
  <2> SUFFICES ASSUME full', \A i \in 1..Len(rows)' : Regular(rows[i].key)',
                      NEW s \in (Reserved..size - 1)'
               PROVE  Occupied(s)'
    BY Zenon DEF FullOnlyWhenFull
  <2>1. s \in Reserved..size - 1 /\ s \in SlotIds
    BY <1>1, <1>2, <1>3 DEF SlotIds, Reserved, TableTypeOK
  <2>2. \A i \in 1..Len(rows) : Regular(rows[i].key)
    BY <1>1, Zenon DEF Regular, IsNullKey, HashCode
  <2> QED
    BY <2>1, <2>2, <1>1, <1>2, <1>7, Zenon DEF FullOnlyWhenFull
<1> QED
  BY <1>1, <1>3, <1>5, <1>6, <1>9, <1>10, Zenon DEF TableInv

\* A table without keys satisfies the invariant between two blocks.
LEMMA EmptyTableInv ==
    ASSUME TableTypeOK, ~running, ~full, \A s \in SlotIds : slots[s] = Empty
    PROVE  TableInv
<1>1. \A s \in Reserved..size - 1 : ~Occupied(s)
  BY DEF Occupied, SlotIds, Reserved, TableTypeOK
<1>2. SlotsReachable
  BY <1>1, Zenon DEF SlotsReachable
<1>3. kind # "numeric" => \A s \in SlotIds : slots[s] < 0
  BY DEF Empty
<1> QED
  BY <1>2, <1>3, Zenon DEF TableInv, FullOnlyWhenFull

\* The table is created.
LEMMA InitInv == TableInit => TableInv
<1> SUFFICES ASSUME TableInit PROVE TableInv
  BY Zenon
<1>1. slots \in [SlotIds -> Int] /\ \A s \in SlotIds : slots[s] = Empty
  BY LowestAssumption DEF TableInit, Empty
<1>2. TableTypeOK
  <2>1. Len(rows) \in Nat
    BY Zenon DEF TableInit
  <2>2. pc \in [Threads -> ThreadStates]
    BY Zenon DEF TableInit, ThreadStates
  <2>3. /\ cur \in [Threads -> Nat] /\ probe \in [Threads -> Nat] /\ found \in [Threads -> Int]
        /\ DOMAIN old = Threads /\ DOMAIN buffer = SlotIds
    BY DEF TableInit
  <2>4. /\ kind \in Kinds /\ op \in Aggregations /\ size \in Nat \ {0} /\ lanes \in Nat \ {0}
        /\ running = FALSE /\ full = FALSE /\ undefined = FALSE
    BY Zenon DEF TableInit
  <2> QED
    BY <1>1, <2>1, <2>2, <2>3, <2>4, Zenon DEF TableTypeOK
<1> QED
  BY <1>1, <1>2, EmptyTableInv, Zenon DEF TableInit

\* The table is created anew, larger or for another query.
LEMMA RecreateInv ==
    ASSUME TableInv, NEW k \in Kinds, NEW o \in Aggregations, NEW n \in Nat \ {0}, NEW l \in Nat \ {0},
           Recreate(k, o, n, l)
    PROVE  TableInv'
<1>1. /\ ~running /\ ~undefined /\ kind' = k /\ op' = o /\ size' = n /\ lanes' = l /\ full' = FALSE
      /\ slots' = [s \in 0..n - 1 |-> IF k = "numeric" THEN Lowest ELSE -1]
      /\ buffer' = [s \in 0..n - 1 |-> Null]
      /\ UNCHANGED <<rows, running, pc, cur, probe, found, old, undefined>>
  BY Zenon DEF Recreate, CreateTable, threadVars
<1>2. SlotIds' = 0..n - 1 /\ Empty' = IF k = "numeric" THEN Lowest ELSE -1
  BY <1>1, Zenon DEF SlotIds, Empty
<1>3. slots' \in [SlotIds' -> Int] /\ \A s \in SlotIds' : slots'[s] = Empty'
  BY <1>1, <1>2, LowestAssumption
<1>4. TableTypeOK'
  BY <1>1, <1>2, <1>3, Zenon DEF TableInv, TableTypeOK
<1>5. SlotsReachable'
  <2>1. ASSUME NEW s \in (Reserved..size - 1)' PROVE ~Occupied(s)'
    BY <1>1, <1>2, <1>3 DEF Occupied, Reserved
  <2> QED
    BY <2>1, Zenon DEF SlotsReachable
<1>6. kind' # "numeric" => \A s \in SlotIds' : slots'[s] < 0
  BY <1>1, <1>2, <1>3
<1>7. FullOnlyWhenFull'
  BY <1>1, Zenon DEF FullOnlyWhenFull
<1> QED
  BY <1>1, <1>4, <1>5, <1>6, <1>7, Zenon DEF TableInv

\* Every step keeps the invariant.
LEMMA NextInv == TableInv /\ [TableNext]_tvars => TableInv'
<1> SUFFICES ASSUME TableInv, [TableNext]_tvars PROVE TableInv'
  BY Zenon
<1>1. CASE UNCHANGED tvars
  <2>1. UNCHANGED <<kind, op, size, lanes, slots, buffer, rows, running, full, pc, cur, probe, found, old, undefined>>
    BY <1>1, SMTT(30) DEF tvars, tableVars, threadVars
  <2>2. TableTypeOK'
    BY <2>1, TypesKept, Zenon DEF TableInv, TableTypeOK
  <2>3. CASE undefined
    BY <2>1, <2>2, <2>3, Zenon DEF TableInv
  <2>4. CASE ~undefined
    <3>1. TableTypeOK /\ SlotsReachable
      BY <2>4, Zenon DEF TableInv
    <3>2. SlotsKept /\ SlotsReachable'
      BY <2>1, <3>1, UnchangedSlotsKept, Zenon
    <3>3. FullOnlyWhenFull'
      BY <2>1, <2>4, Zenon DEF TableInv, FullOnlyWhenFull, Regular, IsNullKey, HashCode, Occupied, Empty, Reserved
    <3>4. ASSUME running PROVE RowsAreInput' /\ \A t \in Threads : ThreadOK(t)'
      <4>1. RowsAreInput /\ \A t \in Threads : ThreadOK(t)
        BY <2>4, <3>4, Zenon DEF TableInv
      <4>2. RowsAreInput'
        BY <2>1, <4>1, SameTable, SMTT(30) DEF RowsAreInput
      <4>3. ASSUME NEW t \in Threads PROVE ThreadOK(t)'
        BY <2>1, <3>1, <3>2, <4>1, OthersKept, Zenon
      <4> QED
        BY <4>2, <4>3, Zenon
    <3> QED
      BY <2>1, <2>2, <2>4, <3>2, <3>3, <3>4, Zenon DEF TableInv, SlotIds
  <2> QED
    BY <2>3, <2>4, Zenon
<1>2. CASE TableNext
  BY <1>2, LaunchInv, StepInv, EndBlockInv, RecreateInv, SMTT(30) DEF TableNext
<1> QED
  BY <1>1, <1>2, Zenon

-----------------------------------------------------------------------------
(* The theorems *)

\* The invariant implies that a key has one slot: two slots of a key would
\* both be found by probing, and the later one only past the earlier one.
LEMMA InvImpliesOneSlot == TableInv => OneSlotPerKey
<1> SUFFICES ASSUME TableInv PROVE OneSlotPerKey
  BY Zenon
<1>1. TableTypeOK
  BY Zenon DEF TableInv
<1>2. ASSUME ~undefined, NEW s1 \in SlotIds, NEW s2 \in SlotIds, s1 # s2, Occupied(s1), Occupied(s2),
             Regular(SlotKey(s1)), SlotKey(s1) = SlotKey(s2)
      PROVE  FALSE
  <2>1. SlotsReachable /\ Reserved \in {0, 1} /\ s1 \in Int /\ s2 \in Int
    <3>1. SlotsReachable
      BY <1>2, Zenon DEF TableInv
    <3>2. Reserved \in {0, 1}
      BY Zenon DEF Reserved
    <3> QED
      BY <3>1, <3>2, <1>2 DEF SlotIds
  <2>2. PICK k : k = SlotKey(s1)
    BY Zenon
  <2>3. CASE s1 >= Reserved /\ s2 >= Reserved
    <3>1. s1 \in Reserved..size - 1 /\ s2 \in Reserved..size - 1 /\ KeyAt(s1) = k /\ KeyAt(s2) = k
      BY <2>1, <2>2, <2>3, <1>1, <1>2 DEF SlotKey, SlotIds, TableTypeOK
    <3>2. Reachable(k, s1) /\ Reachable(k, s2)
      BY <3>1, <2>1, <2>2, <1>2, Zenon DEF SlotsReachable
    <3>3. PICK d1 \in 0..Capacity - 1 : Index(k, d1) = s1 /\ Passed(k, d1)
      BY <3>2, Zenon DEF Reachable
    <3>4. PICK d2 \in 0..Capacity - 1 : Index(k, d2) = s2 /\ Passed(k, d2)
      BY <3>2, Zenon DEF Reachable
    <3>5. d1 \in 0..d2 - 1 \/ d2 \in 0..d1 - 1
      BY <3>3, <3>4, <1>2
    <3> QED
      BY <3>1, <3>3, <3>4, <3>5, Zenon DEF Passed
  <2>4. ASSUME NEW a \in SlotIds, NEW b \in SlotIds, a # b, a < Reserved, Occupied(b),
               SlotKey(a) = SlotKey(b)
        PROVE  FALSE
    <3>1. Reserved = 1 /\ a = 0 /\ b >= Reserved /\ b \in Reserved..size - 1
      BY <2>1, <2>4, <1>1 DEF SlotIds, TableTypeOK
    <3>2. KeyAt(b) = Null
      BY <2>1, <2>4, <3>1 DEF SlotKey
    <3>3. IsKey(KeyAt(b)) /\ kind # "multi"
      BY <2>1, <2>4, <3>1 DEF SlotsReachable, Reserved
    <3> QED
      BY <3>2, <3>3, Zenon DEF IsKey, IsNullKey
  <2>5. CASE s1 < Reserved
    BY <2>4, <2>5, <1>2, Zenon
  <2>6. CASE s2 < Reserved
    BY <2>4, <2>6, <1>2, Zenon
  <2> QED
    BY <2>1, <2>3, <2>5, <2>6, SMTT(30)
<1>3. ASSUME running, ~undefined, NEW t \in Threads, pc[t] \in {"aggregate", "swap"}, Regular(Key(t))
      PROVE  found[t] \in SlotIds /\ Occupied(found[t]) /\ SlotKey(found[t]) = Key(t)
  <2>1. PICK k, s : k = Key(t) /\ s = found[t]
    BY Zenon
  <2>2. s \in SlotIds /\ Occupied(s) /\ (IF s < Reserved THEN k = Null ELSE KeyAt(s) = k)
    BY <1>3, <2>1, Zenon DEF TableInv, ThreadOK
  <2> QED
    BY <2>1, <2>2, Zenon DEF SlotKey
<1> QED
  BY <1>1, <1>2, <1>3, Zenon DEF OneSlotPerKey

\* However the threads of group_by_kernel, kernel_group_by_string and
\* kernel_group_by_multi_key are interleaved, a key has one slot and every
\* thread aggregates into the slot of its row's key, for every number of
\* threads, size of the table, hash function and sequence of blocks.
THEOREM KeysHaveOneSlot == TableSpec => []OneSlotPerKey
<1>1. TableSpec => []TableInv
  BY InitInv, NextInv, PTL DEF TableSpec
<1> QED
  BY <1>1, InvImpliesOneSlot, PTL

\* GPU_HASH_TABLE_FULL is raised only when no slot is left: HandleHashTableFull
\* never drops a table that still had room.
THEOREM TableIsFull == TableSpec => []FullOnlyWhenFull
<1>1. TableSpec => []TableInv
  BY InitInv, NextInv, PTL DEF TableSpec
<1>2. TableInv => FullOnlyWhenFull
  BY Zenon DEF TableInv, FullOnlyWhenFull
<1> QED
  BY <1>1, <1>2, PTL
=============================================================================
