--------------------------- MODULE CudaMemAllocator ---------------------------
(***************************************************************************)
(* The suballocator that hands out pieces of the one buffer it reserves on *)
(* a GPU (src/qikkDB/QueryEngine/CudaMemAllocator.cu).  Allocate and       *)
(* Deallocate hold allocator_mutex_ from their first to their last line,   *)
(* so each call is one step.                                               *)
(*                                                                         *)
(* A pointer is its offset from cudaBufferStart_.  chainedBlocks_ is a     *)
(* std::list, kept here as what it is: nodes with a predecessor and a      *)
(* successor.  A node is named by its ptr, which never changes; the list's *)
(* end() is named PoolSize, an offset no node has.                         *)
(***************************************************************************)
EXTENDS Integers

CONSTANTS
    PoolSize,   \* allocSize: bytes left of the GPU after RESERVED_MEMORY
    Unit,       \* 512, the minimal allocation unit
    Requests    \* the sizes that callers ask for

ASSUME AllocatorAssumption ==
    /\ PoolSize \in Nat \ {0}
    /\ Unit \in Nat \ {0}
    /\ Requests \subseteq Int

VARIABLES
    chainedBlocks,      \* ptr |-> its list node
    blocksBySize,       \* ptr of a node |-> the key of its entry in the multimap
    allocatedBlocks,    \* the keys of the map ptr -> list node
    ret                 \* the last call and how it ended

vars == <<chainedBlocks, blocksBySize, allocatedBlocks, ret>>

End == PoolSize
Ptr == 0 .. (PoolSize - 1)

BlockInfo == [allocated: BOOLEAN, blockSize: Nat, prev: Ptr \cup {End}, next: Ptr \cup {End}]

Returned == [op: {"ctor", "Allocate", "Deallocate"}, arg: Int,
             outcome: {"ok", "out_of_range", "out_of_memory"}, ptr: Ptr]

Result(op, arg, outcome, ptr) ==
    [op |-> op, arg |-> arg, outcome |-> outcome, ptr |-> ptr]

Node(allocated, blockSize, prev, next) ==
    [allocated |-> allocated, blockSize |-> blockSize, prev |-> prev, next |-> next]

(***************************************************************************)
(* The constructor: one free block, entered in blocksBySize_.              *)
(***************************************************************************)
Init ==
    /\ chainedBlocks = [p \in {0} |-> Node(FALSE, PoolSize, End, End)]
    /\ blocksBySize = [p \in {0} |-> PoolSize]
    /\ allocatedBlocks = {}
    /\ ret = Result("ctor", 0, "ok", 0)

\* Mutant: the request is not rounded up.
UnroundedSize(numBytes) == numBytes

AlignedSize(numBytes) ==
    IF numBytes % Unit = 0 THEN numBytes ELSE numBytes + (Unit - (numBytes % Unit))

\* Entries whose key is at least size: lower_bound(size) is end() if there is none.
LargeEnough(size) == {p \in DOMAIN blocksBySize : blocksBySize[p] >= size}

\* Entries lower_bound(size) may return.  Among equal keys the multimap
\* returns the one inserted first; any of them is allowed here.
LowerBound(size) ==
    {p \in LargeEnough(size) : \A q \in LargeEnough(size) : blocksBySize[q] >= blocksBySize[p]}

\* std::list: node b is erased after a has taken over its bytes.
Absorb(chain, a, b) ==
    [p \in DOMAIN chain \ {b} |->
        IF p = a THEN Node(chain[a].allocated, chain[a].blockSize + chain[b].blockSize,
                           chain[a].prev, chain[b].next)
        ELSE IF p = chain[b].next THEN Node(chain[p].allocated, chain[p].blockSize, a, chain[p].next)
        ELSE chain[p]]

\* The list with block p marked allocated or free.
Mark(chain, p, allocated) ==
    [chain EXCEPT ![p] = Node(allocated, chain[p].blockSize, chain[p].prev, chain[p].next)]

\* The rest of block p beyond the first size bytes becomes a free node after p.
SplitBlock(chain, p, size) ==
    LET rest == p + size
    IN  [q \in DOMAIN chain \cup {rest} |->
            IF q = rest THEN Node(FALSE, chain[p].blockSize - size, p, chain[p].next)
            ELSE IF q = p THEN Node(chain[p].allocated, size, chain[p].prev, rest)
            ELSE IF q = chain[p].next THEN Node(chain[q].allocated, chain[q].blockSize, rest, chain[q].next)
            ELSE chain[q]]

(***************************************************************************)
(* Allocate                                                                *)
(***************************************************************************)
AllocateInvalid(numBytes) ==
    /\ numBytes <= 0
    /\ ret' = Result("Allocate", numBytes, "out_of_range", 0)
    /\ UNCHANGED <<chainedBlocks, blocksBySize, allocatedBlocks>>

AllocateOutOfMemory(numBytes) ==
    /\ numBytes > 0
    /\ LargeEnough(AlignedSize(numBytes)) = {}
    /\ ret' = Result("Allocate", numBytes, "out_of_memory", 0)
    /\ UNCHANGED <<chainedBlocks, blocksBySize, allocatedBlocks>>

\* The chain and the size index after block p was taken for size bytes.
TakeChain(p, size) ==
    LET taken == Mark(chainedBlocks, p, TRUE)
    IN  IF blocksBySize[p] > size THEN SplitBlock(taken, p, size) ELSE taken

TakeIndex(p, size) ==
    IF blocksBySize[p] > size
    THEN [q \in (DOMAIN blocksBySize \ {p}) \cup {p + size} |->
            IF q = p + size THEN blocksBySize[p] - size ELSE blocksBySize[q]]
    ELSE [q \in DOMAIN blocksBySize \ {p} |-> blocksBySize[q]]

AllocateBlock(numBytes) ==
    /\ numBytes > 0
    /\ \E p \in LowerBound(AlignedSize(numBytes)) :
        /\ chainedBlocks' = TakeChain(p, AlignedSize(numBytes))
        /\ blocksBySize' = TakeIndex(p, AlignedSize(numBytes))
        /\ allocatedBlocks' = allocatedBlocks \cup {p}
        /\ ret' = Result("Allocate", numBytes, "ok", p)

(***************************************************************************)
(* Deallocate: merge with a free predecessor, then with a free successor.  *)
(***************************************************************************)
IsFree(chain, p) == p # End /\ ~chain[p].allocated

\* Mutant: a block is never merged with a neighbour.
NeverMerge(p) == FALSE

MergePrev(p) == IsFree(chainedBlocks, chainedBlocks[p].prev)

\* listIt after the first merge, and the chain it is in.
Survivor(p) == IF MergePrev(p) THEN chainedBlocks[p].prev ELSE p

AfterPrev(p) ==
    IF MergePrev(p) THEN Absorb(chainedBlocks, chainedBlocks[p].prev, p) ELSE chainedBlocks

MergeNext(p) == IsFree(AfterPrev(p), AfterPrev(p)[Survivor(p)].next)

FreeChain(p) ==
    LET next == AfterPrev(p)[Survivor(p)].next
        merged == IF MergeNext(p) THEN Absorb(AfterPrev(p), Survivor(p), next) ELSE AfterPrev(p)
    IN  Mark(merged, Survivor(p), FALSE)

\* Mutant: the entry of the absorbed successor stays in blocksBySize_.
FreeIndexKeepsNext(p) ==
    [q \in DOMAIN blocksBySize \cup {Survivor(p)} |->
        IF q = Survivor(p) THEN FreeChain(p)[q].blockSize ELSE blocksBySize[q]]

FreeIndex(p) ==
    LET next == AfterPrev(p)[Survivor(p)].next
        kept == DOMAIN blocksBySize \ (IF MergeNext(p) THEN {next} ELSE {})
    IN  [q \in kept \cup {Survivor(p)} |->
            IF q = Survivor(p) THEN FreeChain(p)[q].blockSize ELSE blocksBySize[q]]

DeallocateUnknown(ptr) ==
    /\ ptr \notin allocatedBlocks
    /\ ret' = Result("Deallocate", ptr, "out_of_range", 0)
    /\ UNCHANGED <<chainedBlocks, blocksBySize, allocatedBlocks>>

DeallocateBlock(ptr) ==
    /\ ptr \in allocatedBlocks
    /\ allocatedBlocks' = allocatedBlocks \ {ptr}
    /\ chainedBlocks' = FreeChain(ptr)
    /\ blocksBySize' = FreeIndex(ptr)
    /\ ret' = Result("Deallocate", ptr, "ok", 0)

Next ==
    \/ \E n \in Requests : AllocateInvalid(n) \/ AllocateOutOfMemory(n) \/ AllocateBlock(n)
    \/ \E p \in Ptr : DeallocateUnknown(p) \/ DeallocateBlock(p)

Spec == Init /\ [][Next]_vars
-----------------------------------------------------------------------------
\* Every list node, index entry and result is of its kind.
TypeOK ==
    /\ DOMAIN chainedBlocks \subseteq Ptr
    /\ chainedBlocks \in [DOMAIN chainedBlocks -> BlockInfo]
    /\ DOMAIN blocksBySize \subseteq Ptr
    /\ blocksBySize \in [DOMAIN blocksBySize -> Nat]
    /\ allocatedBlocks \subseteq Ptr
    /\ ret \in Returned

BlockEnd(chain, p) == p + chain[p].blockSize

Tiles(chain) ==
    /\ 0 \in DOMAIN chain
    /\ \A p \in DOMAIN chain :
        /\ chain[p].blockSize > 0
        /\ chain[p].next = BlockEnd(chain, p)
        /\ chain[p].next # End => chain[p].next \in DOMAIN chain /\ chain[chain[p].next].prev = p
        /\ chain[p].prev = End <=> p = 0
        /\ chain[p].prev # End => chain[p].prev \in DOMAIN chain /\ chain[chain[p].prev].next = p
    /\ \A p, q \in DOMAIN chain : p < q => BlockEnd(chain, p) <= q

\* The list links the blocks in address order, each one beginning where its
\* predecessor ends, and no two blocks share a byte: what SplitBlock and both
\* merges of Deallocate must keep although each edits one neighbour at a time.
ListTilesBuffer == Tiles(chainedBlocks)

Covers(chain) ==
    \A x \in Ptr : \E p \in DOMAIN chain : p <= x /\ x < BlockEnd(chain, p)

\* No byte of the GPU buffer is ever lost: each one belongs to a block.
NoByteLost == Covers(chainedBlocks)

\* Freed neighbours are always coalesced: two free blocks are never adjacent.
NoAdjacentFree ==
    \A p \in DOMAIN chainedBlocks :
        IsFree(chainedBlocks, p) => ~IsFree(chainedBlocks, chainedBlocks[p].next)

\* The two indexes agree with the list: blocksBySize_ has exactly the free
\* blocks under their current sizes, allocatedBlocks_ exactly the allocated ones.
IndexesAgree ==
    /\ blocksBySize = [p \in {q \in DOMAIN chainedBlocks : ~chainedBlocks[q].allocated} |->
                         chainedBlocks[p].blockSize]
    /\ allocatedBlocks = {p \in DOMAIN chainedBlocks : chainedBlocks[p].allocated}

\* The three structures are consistent between calls: the list tiles the whole
\* buffer, free neighbours are merged and both indexes agree with the list.
HeapConsistent == TypeOK /\ ListTilesBuffer /\ NoByteLost /\ NoAdjacentFree /\ IndexesAgree

\* Every block begins on a multiple of the unit, although PoolSize need not be
\* one ("Minimal allocation unit is 512bytes ... Thurst relies on this").
PointersAligned == \A p \in DOMAIN chainedBlocks : p % Unit = 0

Live == [p \in allocatedBlocks |-> chainedBlocks[p].blockSize]

Promised == INSTANCE GpuMemory WITH live <- Live

\* The allocator does what GpuMemory promises: a step of Allocate or Deallocate
\* is the promised one on the regions the callers hold.
ImplementsGpuMemory == Promised!Spec
=============================================================================
