-------------------------- MODULE ColumnPersistence --------------------------
(***************************************************************************)
(* The files of one numeric (or point) column and the threads that use     *)
(* them: a query thread inserts rows into the blocks in memory while the   *)
(* autosave timer writes the blocks whose saveNecessary_ flag is set.      *)
(* (src/qikkDB: Database.cpp PersistOnlyModified, WriteColumn, LoadColumn; *)
(* Database.h WriteBlockNumericTypes; ColumnBase.h InsertData,             *)
(* InsertDataOnSpecificPosition, BlockSplit; BlockBase.h.)                 *)
(*                                                                         *)
(* The .data file is a sequence of cells.  A record is a header, one cell  *)
(* per word of the null mask, and BlockSize cells of data: its length      *)
(* depends on the number of rows through the mask alone.  The .adrs file   *)
(* gives the position of the record of the block with index i in entry i.  *)
(* Loading reads .data from its start to its end and ignores .adrs.        *)
(***************************************************************************)
EXTENDS Integers, Sequences, FiniteSets, SequencesExt

CONSTANTS
    BlockSize,      \* rows of a block
    MaskBits,       \* rows per word of the null mask (64 in the code)
    MaxInsert,      \* bound on the rows of one INSERT
    SomeNulls,      \* the rows that are NULL in a nullable column
    Bounds          \* the workloads, subsets of Events, each with its bounds on
                    \* the rows ever inserted and on the number of restarts

\* The table has a clustered index, Persist is called, which rewrites all the
\* files, the process may die, the column is nullable.
Events == {"clustered", "persist", "crash", "nulls"}

ASSUME ColumnAssumption ==
    /\ BlockSize \in Nat \ {0, 1} /\ MaskBits \in Nat \ {0}
    /\ MaxInsert \in Nat
    /\ SomeNulls \subseteq Nat \ {0}
    /\ DOMAIN Bounds \subseteq SUBSET Events
    /\ \A w \in DOMAIN Bounds : Bounds[w].rows \in Nat /\ Bounds[w].starts \in Nat

VARIABLES
    blocks,     \* the blocks in memory, in order
    adrs,       \* the .adrs file, through the stream that writes it
    flushed,    \* how many entries of it have left the stream's buffer
    data,       \* the .data file
    inserter,   \* the thread that inserts
    saver,      \* the thread that saves
    rowCount,   \* rows inserted so far
    starts,
    workload    \* which of Events happen in this behaviour

vars == <<blocks, adrs, flushed, data, inserter, saver, rowCount, starts, workload>>

MaxRows == Bounds[workload].rows     \* the names of the rows are 1 .. MaxRows
MaxStarts == Bounds[workload].starts
NullRows == IF "nulls" \in workload THEN SomeNulls ELSE {}

NoIndex == -1       \* UINT32_MAX: never persisted
Filler == 0         \* numeric_limits<T>::max()
Garbage == -1       \* what a read past the end of the file leaves in memory

Block(index, rows, nulls, dirty) == [index |-> index, rows |-> rows, nulls |-> nulls, dirty |-> dirty]
Nulls(rows) == ToSet(rows) \cap NullRows
NewBlock(rows) == Block(NoIndex, rows, {}, TRUE)
IsFull(block) == Len(block.rows) = BlockSize
Take(rows, n) == SubSeq(rows, 1, n)
Drop(rows, n) == SubSeq(rows, n + 1, Len(rows))

Resting == [at |-> "Idle"]
InserterAt(at, nulls, rest) == [at |-> at, nulls |-> nulls, rest |-> rest]
SaverAt(at, block, last, position, size, failed) ==
    [at |-> at, block |-> block, last |-> last, position |-> position, size |-> size, failed |-> failed]

(***************************************************************************)
(* The .data file                                                          *)
(***************************************************************************)
GetNullBitMaskSize(size) == (size + MaskBits - 1) \div MaskBits

\* WriteBlockNumericTypes, in the order in which it fills the file.
HeaderCells(index, size, rows, nulls) ==
    LET words == GetNullBitMaskSize(Len(rows))
        word(w) == {r \in nulls : \E k \in DOMAIN rows : rows[k] = r /\ (k - 1) \div MaskBits = w - 1}
    IN  <<[kind |-> "header", index |-> index, words |-> words, size |-> size]>>
        \o [w \in 1 .. words |-> [kind |-> "mask", nulls |-> word(w)]]

\* Mutant: the last row of a block is not written.
OneRowShort(rows) ==
    [k \in 1 .. BlockSize |-> [kind |-> "row", row |-> IF k < Len(rows) THEN rows[k] ELSE Filler]]

DataCells(rows) ==
    [k \in 1 .. BlockSize |-> [kind |-> "row", row |-> IF k <= Len(rows) THEN rows[k] ELSE Filler]]

RecordCells(index, block) ==
    HeaderCells(index, Len(block.rows), block.rows, block.nulls) \o DataCells(block.rows)

\* The file after cells have been written at a position (counted from 0).
Overwrite(file, position, cells) ==
    [i \in 1 .. Max({Len(file), position + Len(cells)}) |->
        IF i > position /\ i <= position + Len(cells) THEN cells[i - position] ELSE file[i]]

\* LoadColumn.  A header that is not one ends the model's reading: the code
\* would take whatever is there for an index, lengths and statistics.
CellRow(file, i) == IF i <= Len(file) /\ file[i].kind = "row" THEN file[i].row ELSE Garbage

CellNulls(file, i) == IF i <= Len(file) /\ file[i].kind = "mask" THEN file[i].nulls ELSE {}

Loaded(file) ==
    LET from[p \in 1 .. Len(file) + 2 * BlockSize + 1] ==
            IF p > Len(file) THEN <<>>
            ELSE IF file[p].kind # "header" THEN <<Block(NoIndex, <<Garbage>>, {}, FALSE)>>
            ELSE LET head == file[p]
                     rows == [k \in 1 .. head.size |-> CellRow(file, p + head.words + k)]
                     nulls == UNION {CellNulls(file, p + w) : w \in 1 .. head.words}
                 IN  <<Block(head.index, rows, nulls \cap ToSet(rows), FALSE)>>
                     \o from[p + head.words + BlockSize + 1]
    IN  from[1]

Misread(loaded) == \E i \in DOMAIN loaded : loaded[i].index = NoIndex

(***************************************************************************)
(* Inserting.  InsertData fills the last block and adds blocks for the     *)
(* rest; rows are in place before the flag of the block is set.  Null bits *)
(* are set before the rows if all fit, and after the flag otherwise.       *)
(***************************************************************************)
InsertData(n) ==
    LET new == [k \in 1 .. n |-> rowCount + k]
        b == Len(blocks)
        room == IF b = 0 THEN 0 ELSE BlockSize - Len(blocks[b].rows)
    IN  /\ "clustered" \notin workload
        /\ inserter = Resting
        /\ rowCount + n <= MaxRows
        /\ rowCount' = rowCount + n
        /\ \/ /\ room = 0
              /\ inserter' = InserterAt("AddBlock", {}, new)
              /\ UNCHANGED blocks
           \/ /\ 0 < room /\ n <= room
              /\ blocks' = [blocks EXCEPT ![b].rows = @ \o new, ![b].nulls = @ \cup Nulls(new)]
              /\ inserter' = InserterAt("SetSaveNecessary", {}, <<>>)
           \/ /\ 0 < room /\ room < n
              /\ blocks' = [blocks EXCEPT ![b].rows = @ \o Take(new, room)]
              /\ inserter' = InserterAt("SetSaveNecessary", Nulls(Take(new, room)), Drop(new, room))
        /\ UNCHANGED <<adrs, flushed, data, saver, starts, workload>>

SetSaveNecessary ==
    /\ inserter.at = "SetSaveNecessary"
    /\ blocks' = [blocks EXCEPT ![Len(blocks)].dirty = TRUE]
    /\ inserter' = [inserter EXCEPT !.at = "SetNulls"]
    /\ UNCHANGED <<adrs, flushed, data, saver, rowCount, starts, workload>>

SetNulls ==
    /\ inserter.at = "SetNulls"
    /\ blocks' = [blocks EXCEPT ![Len(blocks)].nulls = @ \cup inserter.nulls]
    /\ inserter' = IF inserter.rest = <<>> THEN Resting ELSE InserterAt("AddBlock", {}, inserter.rest)
    /\ UNCHANGED <<adrs, flushed, data, saver, rowCount, starts, workload>>

AddBlock ==
    LET toCopy == Min({Len(inserter.rest), BlockSize})
        rows == Take(inserter.rest, toCopy)
    IN  /\ inserter.at = "AddBlock"
        /\ blocks' = Append(blocks, NewBlock(rows))
        /\ inserter' = InserterAt("SetNulls", Nulls(rows), Drop(inserter.rest, toCopy))
        /\ UNCHANGED <<adrs, flushed, data, saver, rowCount, starts, workload>>

\* Mutant: the middle row goes to both halves.
OverlappingHalves(block) ==
    LET half == (Len(block.rows) + 1) \div 2
        part(rows) == [NewBlock(rows) EXCEPT !.nulls = block.nulls \cap ToSet(rows)]
    IN  <<part(Take(block.rows, half)), part(Drop(block.rows, Len(block.rows) \div 2))>>

\* BlockSplit: the two halves are new blocks; the index of the old is gone.
Halves(block) ==
    LET half == Len(block.rows) \div 2
        part(rows) == [NewBlock(rows) EXCEPT !.nulls = block.nulls \cap ToSet(rows)]
    IN  <<part(Take(block.rows, half)), part(Drop(block.rows, half))>>

MustSplit(block) == IsFull(block)

\* InsertDataOnSpecificPosition of a clustered table, the block split when
\* it has become full.  Between saves only: a split frees a block that the
\* saver may hold a pointer to.
InsertDataOnSpecificPosition(b, p) ==
    LET old == IF blocks = <<>> THEN <<NewBlock(<<>>)>> ELSE blocks
        new == [old[b] EXCEPT !.rows = InsertAt(@, p, rowCount + 1),
                              !.nulls = @ \cup Nulls(<<rowCount + 1>>), !.dirty = TRUE]
    IN  /\ "clustered" \in workload
        /\ saver = Resting
        /\ rowCount < MaxRows
        /\ b \in DOMAIN old /\ ~IsFull(old[b]) /\ p \in 1 .. Len(old[b].rows) + 1
        /\ rowCount' = rowCount + 1
        /\ blocks' = Take(old, b - 1) \o (IF MustSplit(new) THEN Halves(new) ELSE <<new>>) \o Drop(old, b)
        /\ UNCHANGED <<adrs, flushed, data, inserter, saver, starts, workload>>

(***************************************************************************)
(* PersistOnlyModified, block by block over the list of blocks there was   *)
(* at its start.                                                           *)
(***************************************************************************)
SaveBegin ==
    /\ saver = Resting
    /\ saver' = SaverAt("Scan", 1, Len(blocks), 0, 0, FALSE)
    /\ UNCHANGED <<blocks, adrs, flushed, data, inserter, rowCount, starts, workload>>

Scanning == saver.at = "Scan" /\ saver.block <= saver.last

\* Mutant: a block is saved once and never again.
IsNew(block) == block.dirty /\ block.index = NoIndex

GetSaveNecessary(block) == block.dirty

SaveSkip ==
    /\ Scanning
    /\ ~GetSaveNecessary(blocks[saver.block])
    /\ saver' = [saver EXCEPT !.block = @ + 1]
    /\ UNCHANGED <<blocks, adrs, flushed, data, inserter, rowCount, starts, workload>>

\* Mutant: the block itself is counted.
NumberFromOne == Cardinality({i \in DOMAIN blocks : blocks[i].index # NoIndex}) + 1

GetNumberOfPersistedBlocks == Cardinality({i \in DOMAIN blocks : blocks[i].index # NoIndex})

\* A block that was never persisted gets an address at the end of .adrs and
\* an index.  After a failed read the stream writes nothing any more.
SaveNew ==
    /\ Scanning
    /\ GetSaveNecessary(blocks[saver.block]) /\ blocks[saver.block].index = NoIndex
    /\ flushed' = Len(adrs)
    /\ adrs' = IF saver.failed THEN adrs ELSE Append(adrs, Len(data))
    /\ blocks' = [blocks EXCEPT ![saver.block].index = GetNumberOfPersistedBlocks]
    /\ saver' = [saver EXCEPT !.at = "ClearFlag", !.position = Len(data)]
    /\ UNCHANGED <<data, inserter, rowCount, starts, workload>>

\* The position in .adrs, or anything at all if the read fails.
Seek(index) == IF ~saver.failed /\ index < Len(adrs) THEN {adrs[index + 1]} ELSE 0 .. Len(data)

SaveOld ==
    /\ Scanning
    /\ LET block == blocks[saver.block]
       IN  /\ GetSaveNecessary(block) /\ block.index # NoIndex
           /\ \E position \in Seek(block.index) :
                saver' = [saver EXCEPT !.at = "ClearFlag", !.position = position,
                                       !.failed = @ \/ block.index >= Len(adrs)]
    /\ flushed' = Len(adrs)
    /\ UNCHANGED <<blocks, adrs, data, inserter, rowCount, starts, workload>>

(***************************************************************************)
(* WriteBlockNumericTypes: the flag is cleared first; the number of rows   *)
(* is read, and read again for the length of the null mask.                *)
(***************************************************************************)
SetSaveNecessaryToFalse ==
    /\ saver.at = "ClearFlag"
    /\ blocks' = [blocks EXCEPT ![saver.block].dirty = FALSE]
    /\ saver' = [saver EXCEPT !.at = "GetSize"]
    /\ UNCHANGED <<adrs, flushed, data, inserter, rowCount, starts, workload>>

GetSize ==
    /\ saver.at = "GetSize"
    /\ saver' = [saver EXCEPT !.at = "WriteHeader", !.size = Len(blocks[saver.block].rows)]
    /\ UNCHANGED <<blocks, adrs, flushed, data, inserter, rowCount, starts, workload>>

WriteHeader ==
    /\ saver.at = "WriteHeader"
    /\ LET block == blocks[saver.block]
           cells == HeaderCells(block.index, saver.size, block.rows, block.nulls)
       IN  /\ data' = Overwrite(data, saver.position, cells)
           /\ saver' = [saver EXCEPT !.at = "WriteData", !.position = @ + Len(cells)]
    /\ UNCHANGED <<blocks, adrs, flushed, inserter, rowCount, starts, workload>>

\* Mutant: the flag is cleared when the block has been written.
WriteDataAndClear ==
    /\ saver.at = "WriteData"
    /\ data' = Overwrite(data, saver.position, DataCells(Take(blocks[saver.block].rows, saver.size)))
    /\ saver' = [saver EXCEPT !.at = "Scan", !.block = @ + 1]
    /\ blocks' = [blocks EXCEPT ![saver.block].dirty = FALSE]
    /\ UNCHANGED <<adrs, flushed, inserter, rowCount, starts, workload>>

WriteData ==
    /\ saver.at = "WriteData"
    /\ data' = Overwrite(data, saver.position, DataCells(Take(blocks[saver.block].rows, saver.size)))
    /\ saver' = [saver EXCEPT !.at = "Scan", !.block = @ + 1]
    /\ UNCHANGED <<blocks, adrs, flushed, inserter, rowCount, starts, workload>>

SaveEnd ==
    /\ saver.at = "Scan" /\ saver.block > saver.last
    /\ flushed' = Len(adrs)
    /\ saver' = Resting
    /\ UNCHANGED <<blocks, adrs, data, inserter, rowCount, starts, workload>>

SaveStep ==
    \/ SaveSkip \/ SaveNew \/ SaveOld \/ SetSaveNecessaryToFalse
    \/ GetSize \/ WriteHeader \/ WriteData \/ SaveEnd

\* Persist: new files with indexes 0, 1 ..., which the blocks do not learn.
Persist ==
    LET upTo[i \in 0 .. Len(blocks)] ==
            IF i = 0 THEN <<>> ELSE upTo[i - 1] \o RecordCells(i - 1, blocks[i])
    IN  /\ "persist" \in workload
        /\ saver = Resting /\ inserter = Resting
        /\ adrs' = [i \in DOMAIN blocks |-> Len(upTo[i - 1])]
        /\ flushed' = Len(blocks)
        /\ data' = upTo[Len(blocks)]
        /\ blocks' = [i \in DOMAIN blocks |-> [blocks[i] EXCEPT !.dirty = FALSE]]
        /\ UNCHANGED <<inserter, saver, rowCount, starts, workload>>
-----------------------------------------------------------------------------
\* LoadDatabasesFromDisk at the start of the next process.
Load ==
    /\ ~Misread(Loaded(data))
    /\ blocks' = Loaded(data)
    /\ starts < MaxStarts /\ starts' = starts + 1
    /\ inserter' = Resting /\ saver' = Resting
    /\ UNCHANGED <<data, rowCount, workload>>

\* The server stops once everything is saved, and is started again.
Restart ==
    /\ saver = Resting /\ inserter = Resting
    /\ \A i \in DOMAIN blocks : ~blocks[i].dirty
    /\ Load
    /\ UNCHANGED <<adrs, flushed>>

\* The process dies, with what the address stream has in its buffer.
Crash ==
    /\ "crash" \in workload
    /\ Load
    /\ adrs' = Take(adrs, flushed)
    /\ UNCHANGED flushed

Init ==
    /\ blocks = <<>>
    /\ adrs = <<>> /\ flushed = 0 /\ data = <<>>
    /\ inserter = Resting /\ saver = Resting
    /\ rowCount = 0 /\ starts = 0
    /\ workload \in DOMAIN Bounds

InsertStep == SetSaveNecessary \/ SetNulls \/ AddBlock

Next ==
    \/ \E n \in 1 .. MaxInsert : InsertData(n)
    \/ InsertStep
    \/ \E b \in 1 .. Len(blocks) + 1, p \in 1 .. BlockSize : InsertDataOnSpecificPosition(b, p)
    \/ SaveBegin \/ SaveStep \/ Persist
    \/ Restart \/ Crash

\* The autosave timer is set again after every save, and a statement that
\* has begun goes on.  Nothing obliges a client to insert.
Spec == Init /\ [][Next]_vars /\ WF_vars(SaveBegin) /\ WF_vars(SaveStep) /\ WF_vars(InsertStep)
-----------------------------------------------------------------------------
Rows == 1 .. MaxRows

\* Nothing happens to the column but inserts, saves, restarts and these.
Only(events) == workload \subseteq events

\* Blocks, positions and the two threads are of their kinds.
TypeOK ==
    /\ \A i \in DOMAIN blocks :
        /\ blocks[i].index \in Nat \cup {NoIndex} /\ blocks[i].dirty \in BOOLEAN
        /\ Len(blocks[i].rows) \in 0 .. BlockSize
        /\ ToSet(blocks[i].rows) \subseteq Rows \cup (IF Only({"crash"}) THEN {Filler, Garbage} ELSE {})
        /\ blocks[i].nulls \subseteq ToSet(blocks[i].rows) \cap NullRows
    /\ flushed \in 0 .. Len(adrs)
    /\ \A i \in DOMAIN adrs : adrs[i] \in 0 .. Len(data)
    /\ rowCount \in 0 .. MaxRows /\ starts \in 0 .. MaxStarts

Saving(i) == saver # Resting /\ saver.at # "Scan" /\ saver.block = i

\* index_ "is ID of the block, which has to be unique": no two blocks of the
\* column share one, whatever was saved, reloaded after a stop or a crash and
\* saved again; that no block is split and Persist not called is needed.
IndexesUnique ==
    Only({"nulls", "crash"}) =>
        \A i, j \in DOMAIN blocks : i # j /\ blocks[i].index = blocks[j].index => blocks[i].index = NoIndex

\* "read the position of a block which has been persisted before and so the
\* disk space is allocated already": the address file knows the record of
\* every block that has an index and is not just being saved, as long as the
\* process does not die with addresses in a buffer.
AddressesFindBlocks ==
    Only({"nulls"}) =>
        \A i \in DOMAIN blocks :
            blocks[i].index # NoIndex /\ ~Saving(i) =>
                /\ blocks[i].index < Len(adrs)
                /\ LET position == adrs[blocks[i].index + 1] + 1
                   IN  /\ position <= Len(data) /\ data[position].kind = "header"
                       /\ data[position].index = blocks[i].index

\* A block's index names that block alone, in memory and in the address file.
IndexesNameBlocks == TypeOK /\ IndexesUnique /\ AddressesFindBlocks

\* saveNecessary_ tells "whether the block is modified (or new) and therefore
\* it is necessary to persist": between statements a block without the flag
\* that is not just being saved is on disk as it is in memory, if no row is
\* NULL.
CleanBlocksOnDisk ==
    Only({}) /\ inserter = Resting =>
        \A i \in DOMAIN blocks :
            ~blocks[i].dirty /\ ~Saving(i) => \E k \in DOMAIN Loaded(data) : Loaded(data)[k] = blocks[i]

\* After a save that left nothing to be saved, loading the column gives the
\* blocks that are in memory, in their order, and no others.
ReloadGivesBlocks ==
    (/\ Only({}) /\ inserter = Resting /\ saver = Resting
     /\ \A i \in DOMAIN blocks : ~blocks[i].dirty) =>
        /\ Len(Loaded(data)) = Len(blocks)
        /\ \A i \in DOMAIN blocks :
            Loaded(data)[i].rows = blocks[i].rows /\ Loaded(data)[i].nulls = blocks[i].nulls

\* What PersistOnlyModified passes over is on disk, and LoadColumn finds it and
\* nothing else.
ReloadIsFaithful == CleanBlocksOnDisk /\ ReloadGivesBlocks

\* A process that dies while it saves a block, or between two blocks, leaves
\* the other blocks intact: those that needed no saving are loaded again as
\* they were.
CrashKeepsBlocks ==
    [][Only({"crash"}) /\ starts = 0 /\ starts' = 1 /\ inserter = Resting =>
        \A i \in DOMAIN blocks :
            ~blocks[i].dirty /\ ~Saving(i) => \E k \in DOMAIN blocks' : blocks'[k] = blocks[i]]_vars

\* Inserting, saving and reloading neither lose nor repeat a row, and neither
\* does splitting before the column is loaded again: every row is in one
\* block, at one place.
EachRowOnce ==
    /\ inserter = Resting
    /\ Only({"nulls"}) \/ ("crash" \notin workload /\ starts = 0)
    =>
        \A r \in 1 .. rowCount :
            Cardinality({<<i, k>> \in (DOMAIN blocks) \X (1 .. BlockSize) :
                            k <= Len(blocks[i].rows) /\ blocks[i].rows[k] = r}) = 1

OnDisk(r) == \E k \in DOMAIN Loaded(data) : r \in ToSet(Loaded(data)[k].rows)

\* Every inserted row reaches the disk, whatever the saver was doing when it
\* was inserted, if the process does not die first.
RowsReachDisk ==
    \A r \in 1 .. Max({Bounds[w].rows : w \in DOMAIN Bounds}) :
        (r <= rowCount /\ "crash" \notin workload) ~> OnDisk(r)
=============================================================================
