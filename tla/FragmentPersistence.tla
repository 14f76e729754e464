-------------------------- MODULE FragmentPersistence -------------------------
(***************************************************************************)
(* The files of a string or polygon column.  The rows of a block are kept  *)
(* in fragments of a fixed size in .fragdata; entry f of .adrs is the      *)
(* index of the block that fragment f belongs to, and .data holds a record *)
(* (index, group, null mask, number of rows) for each block.               *)
(* (src/qikkDB: Database.cpp PersistOnlyModified, WriteColumn, LoadColumn, *)
(* cases COLUMN_STRING and COLUMN_POLYGON; Database.h WriteBlockStringType,*)
(* WriteBlockPolygonType.)                                                 *)
(*                                                                         *)
(* All rows have the same length, so that a fragment holds FragmentSize of *)
(* them, and none is NULL.  A cell of .data is a word of four bytes; the   *)
(* length of the null mask is in cells.  Rows are inserted between blocks  *)
(* of a save: what a save that overlaps with one block loses is the        *)
(* subject of ColumnPersistence.                                           *)
(***************************************************************************)
EXTENDS Integers, Sequences, FiniteSets, SequencesExt

CONSTANTS
    BlockSize,      \* rows of a block
    MaskBits,       \* rows per word of the null mask (64 in the code)
    MaxRows,        \* bound on the rows inserted: their names are 1 .. MaxRows
    MaxInsert,      \* bound on the rows of one INSERT
    Columns         \* the columns, with what happens to them: see Column

\* A polygon or string column, nullable or not, with rows of which inFragment
\* fit into a fragment, and on which Persist, which rewrites all the files, is
\* called or not; saves is the bound on the saves of its modified blocks.
Column == [polygon: BOOLEAN, nullable: BOOLEAN, inFragment: Nat \ {0}, persists: BOOLEAN, saves: Nat]

ASSUME FragmentAssumption ==
    /\ {BlockSize, MaskBits} \subseteq Nat \ {0}
    /\ {MaxRows, MaxInsert} \subseteq Nat
    /\ Columns \subseteq Column

VARIABLES
    blocks,     \* the blocks in memory, in order
    adrs,       \* block index of every fragment
    data,       \* cells of the .data file
    frags,      \* the fragments, each a sequence of rows
    saver,      \* PersistOnlyModified, with the state of its streams
    rowCount, saves,
    column      \* the column that all this is about

vars == <<blocks, adrs, data, frags, saver, rowCount, saves, column>>

FragmentSize == column.inFragment
NoIndex == -1       \* UINT32_MAX, and the group id -1 has the same bits
Garbage == -1

Block(index, rows, dirty) == [index |-> index, rows |-> rows, dirty |-> dirty]
Resting == [at |-> "Idle"]
Take(rows, n) == SubSeq(rows, 1, n)
Drop(rows, n) == SubSeq(rows, n + 1, Len(rows))

\* The file after cells have been written behind the first n.
Overwrite(file, n, cells) ==
    [i \in 1 .. Max({Len(file), n + Len(cells)}) |->
        IF i > n /\ i <= n + Len(cells) THEN cells[i - n] ELSE file[i]]

(***************************************************************************)
(* What WriteBlockStringType and WriteBlockPolygonType put into the files. *)
(***************************************************************************)
MaskCells(size) == 2 * ((size + MaskBits - 1) \div MaskBits)

RecordCells(index, size) ==
    <<index, NoIndex, MaskCells(size)>> \o [k \in 1 .. MaskCells(size) |-> 0] \o <<size, 0>>

Fragments(rows) ==
    LET count == (Len(rows) + FragmentSize - 1) \div FragmentSize
    IN  [f \in 1 .. count |-> SubSeq(rows, (f - 1) * FragmentSize + 1, Min({f * FragmentSize, Len(rows)}))]

\* WriteColumn notes the index of the block before the first row, and before
\* the row that follows one which opened a new fragment.
NewFragmentNoted(i) == i = 1 \/ (i > FragmentSize + 1 /\ (i - 2) % FragmentSize = 0)

Addresses(index, rows) ==
    [k \in 1 .. Cardinality({i \in DOMAIN rows : NewFragmentNoted(i)}) |-> index]

(***************************************************************************)
(* LoadColumn: the blocks are those of the records in .data, each with the *)
(* rows of all the fragments that .adrs gives to its index.  Reading a     *)
(* record ends with the file; block.InsertData throws if the rows do not   *)
(* fit.                                                                    *)
(***************************************************************************)
FragmentRows(f) == IF f <= Len(frags) THEN frags[f] ELSE <<Garbage>>

RowsOf(index) ==
    LET upTo[f \in 0 .. Len(adrs)] ==
            IF f = 0 THEN <<>>
            ELSE IF adrs[f] = index THEN upTo[f - 1] \o FragmentRows(f) ELSE upTo[f - 1]
    IN  upTo[Len(adrs)]

Loaded ==
    LET from[p \in 1 .. 2 * Len(data) + 4] ==
            IF p + 2 > Len(data) \/ data[p + 2] \notin 0 .. Len(data) - p - 2 THEN <<>>
            ELSE <<Block(data[p], RowsOf(data[p]), FALSE)>> \o from[p + data[p + 2] + 5]
    IN  from[1]

LoadThrows == \E k \in DOMAIN Loaded : Len(Loaded[k].rows) > BlockSize

(***************************************************************************)
(* InsertData: fills the last block and adds blocks for the rest.          *)
(***************************************************************************)
InsertData(n) ==
    LET new == [k \in 1 .. n |-> rowCount + k]
        b == Len(blocks)
        room == IF b = 0 THEN 0 ELSE Min({n, BlockSize - Len(blocks[b].rows)})
        filled == IF room = 0 THEN blocks
                  ELSE [blocks EXCEPT ![b] = Block(@.index, @.rows \o Take(new, room), TRUE)]
        rest == Drop(new, room)
        added == [k \in 1 .. (Len(rest) + BlockSize - 1) \div BlockSize |->
                    Block(NoIndex, SubSeq(rest, (k - 1) * BlockSize + 1, Min({k * BlockSize, Len(rest)})), TRUE)]
    IN  /\ rowCount + n <= MaxRows
        /\ rowCount' = rowCount + n
        /\ blocks' = filled \o added
        /\ UNCHANGED <<adrs, data, frags, saver, saves, column>>

(***************************************************************************)
(* PersistOnlyModified.  One stream reads and writes .adrs, from its start *)
(* on and without seeking; once it or the stream that reads .data has met  *)
(* the end of the file it does nothing more.                               *)
(***************************************************************************)
SaveBegin ==
    /\ saver = Resting
    /\ saves < column.saves /\ saves' = saves + 1
    /\ saver' = [at |-> "Scan", block |-> 1, last |-> Len(blocks),
                 adrsAt |-> 0, adrsFailed |-> FALSE, dataFailed |-> FALSE]
    /\ UNCHANGED <<blocks, adrs, data, frags, rowCount, column>>

Scanning == saver.at = "Scan" /\ saver.block <= saver.last
Current == blocks[saver.block]

SaveSkip ==
    /\ Scanning /\ ~Current.dirty
    /\ saver' = [saver EXCEPT !.block = @ + 1]
    /\ UNCHANGED <<blocks, adrs, data, frags, rowCount, saves, column>>

GetNumberOfPersistedBlocks == Cardinality({i \in DOMAIN blocks : blocks[i].index # NoIndex})

\* The flag, the record in .data behind the first n cells, and the rows in
\* new fragments.  The record is not written if the length of .data could
\* not be found out.
WriteBlock(index, n) ==
    /\ blocks' = [blocks EXCEPT ![saver.block] = Block(index, @.rows, FALSE)]
    /\ data' = IF saver.dataFailed THEN data ELSE Overwrite(data, n, RecordCells(index, Len(Current.rows)))
    /\ frags' = frags \o Fragments(Current.rows)

\* Mutant: every address is written to the start of the file.
AddressAtStart(index) == Overwrite(adrs, 0, <<index>>)

NewAddress(index) == Overwrite(adrs, saver.adrsAt, <<index>>)

SaveNew ==
    LET index == GetNumberOfPersistedBlocks
    IN  /\ Scanning /\ Current.dirty /\ Current.index = NoIndex
        /\ adrs' = IF saver.adrsFailed THEN adrs ELSE NewAddress(index)
        /\ WriteBlock(index, Len(data))
        /\ saver' = [saver EXCEPT !.block = @ + 1, !.adrsAt = @ + 1]
        /\ UNCHANGED <<rowCount, saves, column>>

\* The scan for the record of a polygon block: the null masks are skipped if
\* the column is nullable, although they are always there.  String columns
\* leave the scan before it reads anything.
RecordOf(index) ==
    LET next(p) == IF column.nullable THEN p + data[p + 2] + 5 ELSE p + 4
        from[p \in 1 .. 2 * Len(data) + 6] ==
            IF p > Len(data) THEN {}
            ELSE IF data[p] = index THEN {p - 1}
            ELSE IF p + 2 > Len(data) \/ data[p + 2] \notin 0 .. Len(data) THEN {} ELSE from[next(p)]
    IN  from[1]

\* Mutant: a string block takes the place of the first record.
FirstRecord(index) == {0}

\* Where the record of a block with an index goes; {} if the scan fails.
RecordPlace(index) == IF column.polygon THEN RecordOf(index) ELSE {Len(data)}

\* The first fragment of the block, from where .adrs is read, is marked as
\* invalid.  Nothing is added for the new fragments.
SaveOld ==
    LET index == Current.index
        marked == {f \in DOMAIN adrs : f > saver.adrsAt /\ adrs[f] = index}
        found == marked # {} /\ ~saver.adrsFailed
        record == RecordPlace(index)
    IN  /\ Scanning /\ Current.dirty /\ index # NoIndex
        /\ adrs' = IF found THEN [adrs EXCEPT ![Min(marked)] = NoIndex] ELSE adrs
        /\ \E n \in IF record = {} THEN {Len(data)} ELSE record : WriteBlock(index, n)
        /\ saver' = [saver EXCEPT !.block = @ + 1,
                                  !.adrsAt = IF found THEN Min(marked) ELSE @,
                                  !.adrsFailed = ~found,
                                  !.dataFailed = @ \/ record = {}]
        /\ UNCHANGED <<rowCount, saves, column>>

SaveEnd ==
    /\ saver.at = "Scan" /\ saver.block > saver.last
    /\ saver' = Resting
    /\ UNCHANGED <<blocks, adrs, data, frags, rowCount, saves, column>>

(***************************************************************************)
(* Persist (WriteColumn): all files anew.                                  *)
(***************************************************************************)
AllRecords ==
    LET upTo[i \in 0 .. Len(blocks)] ==
            IF i = 0 THEN <<>> ELSE upTo[i - 1] \o RecordCells(i - 1, Len(blocks[i].rows))
    IN  upTo[Len(blocks)]

AllAddresses ==
    LET upTo[i \in 0 .. Len(blocks)] ==
            IF i = 0 THEN <<>> ELSE upTo[i - 1] \o Addresses(i - 1, blocks[i].rows)
    IN  upTo[Len(blocks)]

AllFragments ==
    LET upTo[i \in 0 .. Len(blocks)] ==
            IF i = 0 THEN <<>> ELSE upTo[i - 1] \o Fragments(blocks[i].rows)
    IN  upTo[Len(blocks)]

Persist ==
    /\ column.persists
    /\ saver = Resting
    /\ adrs' = AllAddresses /\ data' = AllRecords /\ frags' = AllFragments
    /\ blocks' = [i \in DOMAIN blocks |-> Block(blocks[i].index, blocks[i].rows, FALSE)]
    /\ UNCHANGED <<saver, rowCount, saves, column>>

Init ==
    /\ blocks = <<>> /\ adrs = <<>> /\ data = <<>> /\ frags = <<>>
    /\ saver = Resting /\ rowCount = 0 /\ saves = 0
    /\ column \in Columns

Next ==
    \/ \E n \in 1 .. MaxInsert : InsertData(n)
    \/ SaveBegin \/ SaveSkip \/ SaveNew \/ SaveOld \/ SaveEnd
    \/ Persist

Spec == Init /\ [][Next]_vars
-----------------------------------------------------------------------------
\* Blocks, files and the save in progress are of their kinds.
TypeOK ==
    /\ \A i \in DOMAIN blocks :
        /\ blocks[i].index \in Nat \cup {NoIndex} /\ blocks[i].dirty \in BOOLEAN
        /\ Len(blocks[i].rows) \in 1 .. BlockSize
    /\ \A f \in DOMAIN adrs : adrs[f] \in Nat \cup {NoIndex}
    /\ \A f \in DOMAIN frags : Len(frags[f]) \in 1 .. FragmentSize
    /\ rowCount \in 0 .. MaxRows /\ saves \in 0 .. column.saves

AllSaved == saver = Resting /\ \A i \in DOMAIN blocks : ~blocks[i].dirty

\* Each block was written by the first save, in one fragment, or by Persist,
\* in fragments that its last row did not open.
WrittenWhole ==
    IF column.persists
    THEN saves = 0 /\ \A i \in DOMAIN blocks :
            Len(blocks[i].rows) > FragmentSize => Len(blocks[i].rows) % FragmentSize # 1
    ELSE saves = 1 /\ \A i \in DOMAIN blocks : Len(blocks[i].rows) <= FragmentSize

Reloads ==
    /\ ~LoadThrows
    /\ Len(Loaded) = Len(blocks)
    /\ \A i \in DOMAIN blocks : Loaded[i].rows = blocks[i].rows

\* Blocks are kept in fragments and each fragment has an address, "position:
\* fragment index, value: block index": when nothing is left to be saved and
\* every block was written whole, loading the column gives the rows of the
\* blocks in memory, block by block.
ReloadIsFaithful == AllSaved /\ WrittenWhole => Reloads /\ Len(adrs) = Len(frags)

\* "we will persist the modified data as new fragments at the end of the
\* file": the same of blocks that are modified and saved again.
ModifiedDataPersisted == AllSaved => Reloads

\* No save loses a row: every row that was saved is in some fragment, whether
\* the fragment is addressed or not.
SavedRowsInFragments ==
    AllSaved => \A i \in DOMAIN blocks : \A r \in ToSet(blocks[i].rows) :
        \E f \in DOMAIN frags : r \in ToSet(frags[f])

\* A write has "to seek the block's position in the COLUMN_DATA_EXTENSION file
\* and replace the block's data": no block of a string or nullable polygon
\* column that was saved is without a record.
EveryBlockHasRecord ==
    AllSaved /\ ~column.persists /\ (column.polygon => column.nullable) =>
        \A i \in DOMAIN blocks : \E k \in DOMAIN Loaded : Loaded[k].index = blocks[i].index

\* Saving loses no row and no record, even of blocks that are saved again.
SavesKeepAll == TypeOK /\ SavedRowsInFragments /\ EveryBlockHasRecord
=============================================================================
