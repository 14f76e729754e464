----------------------------- MODULE ClusteredTable -----------------------------
(***************************************************************************)
(* Insertion into a table with an index: the rows are kept sorted by the   *)
(* columns of the index, each column as a list of blocks that are split in *)
(* the middle when they are full.                                          *)
(* (src/qikkDB/Table.cpp InsertData, GetIndex, CompareRows and what they   *)
(* call; ColumnBase.h InsertDataOnSpecificPosition, BlockSplit, InsertData;*)
(* BlockBase.h InsertDataOnSpecificPosition; QueryEngine/GPUCore/          *)
(* NullValues.cu; GpuSqlListener.cpp exitSqlCreateIndex.)                  *)
(*                                                                         *)
(* A block holds values and, bit by bit in words of MaskBits, which of     *)
(* them are null.  The two are moved by different code, so they are        *)
(* separate state: data and mask.  An INSERT of several rows inserts them  *)
(* one after the other, as several steps do here.                          *)
(***************************************************************************)
EXTENDS Integers, FiniteSets, Sequences, SequencesExt

CONSTANTS
    Null,
    NullConstant,   \* what stands in data where the value is null
    Shapes          \* tables: the block size, the bits of a nullmask_t, the
                    \* values to insert and a bound on the rows

ASSUME ClusteredAssumption ==
    /\ NullConstant \in Int
    /\ \A s \in Shapes :
        /\ s.blockSize \in Nat \ {0, 1} /\ s.maskBits \in Nat \ {0} /\ s.maxRows \in Nat
        /\ s.values \subseteq Int \ {NullConstant} /\ Null \notin s.values

\* Two columns; an index lists one of them or both, in some order.
Columns == {"a", "b"}
Indexes == {<<"a">>, <<"b">>, <<"a", "b">>, <<"b", "a">>}

VARIABLES
    shape,          \* which of the Shapes the table has
    blocks,         \* of each column, the list of blocks
    sortingColumns, \* sortingColumns_
    inserted,       \* how many times each row was inserted
    indexedFilled   \* has an index been added to a table with rows?

vars == <<shape, blocks, sortingColumns, inserted, indexedFilled>>

BlockSize == shape.blockSize
MaskBits == shape.maskBits
MaxRows == shape.maxRows

Row == [Columns -> shape.values \cup {Null}]

Block(data, mask) == [data |-> data, mask |-> mask]
Words == (BlockSize + MaskBits - 1) \div MaskBits
Capacity == Words * MaskBits

DataOf(value) == IF value = Null THEN NullConstant ELSE value

(***************************************************************************)
(* Reading: rows are found through the block sizes of the first sorting    *)
(* column.                                                                 *)
(***************************************************************************)
At(block, i) == IF i - 1 \in block.mask THEN Null ELSE block.data[i]

Size(c, n) == FoldSeq(LAMBDA block, sum : Len(block.data) + sum, 0, SubSeq(blocks[c], 1, n))

GetDataRangeInSortingColumn == Size(sortingColumns[1], Len(blocks[sortingColumns[1]]))

\* The row at index (diff = 1), or the place to insert at (diff = 0), which may
\* be the end of a block.
GetIndicesFromTotalIndex(index, diff) ==
    LET c == sortingColumns[1]
        n == CHOOSE k \in DOMAIN blocks[c] :
                index + diff <= Size(c, k) /\ \A j \in 1 .. (k - 1) : index + diff > Size(c, j)
    IN <<n, index - Size(c, n - 1)>>

\* A null is before every value.
Lower(v, w) == v # w /\ (v = Null \/ (w # Null /\ v < w))

\* The first of the sorting columns in which two rows differ decides.
RowLower(r, s) ==
    \E i \in DOMAIN sortingColumns :
        /\ Lower(r[sortingColumns[i]], s[sortingColumns[i]])
        /\ \A j \in 1 .. (i - 1) : r[sortingColumns[j]] = s[sortingColumns[j]]

GetRowAndBitmaskOnIndex(index) ==
    LET place == GetIndicesFromTotalIndex(index, 1)
    IN [c \in Columns |-> At(blocks[c][place[1]], place[2] + 1)]

\* Mutant: the search stops one row early.
SearchBelow(row) ==
    LET search[left \in Nat, right \in Int] ==
            LET index == (left + right) \div 2
                other == GetRowAndBitmaskOnIndex(index)
            IN IF left >= right THEN left
               ELSE IF RowLower(other, row) THEN search[index + 1, right]
               ELSE IF RowLower(row, other) THEN search[left, index - 1]
               ELSE index
    IN search[0, GetDataRangeInSortingColumn - 1]

\* The total index at which GetIndex ends its binary search: that of a row
\* that compares as equal, or the place between a lower and a greater one.
SearchIndex(row) ==
    LET search[left \in Nat, right \in Int] ==
            LET index == (left + right) \div 2
                other == GetRowAndBitmaskOnIndex(index)
            IN IF left > right THEN left
               ELSE IF RowLower(other, row) THEN search[index + 1, right]
               ELSE IF RowLower(row, other) THEN search[left, index - 1]
               ELSE index
    IN search[0, GetDataRangeInSortingColumn - 1]

GetIndex(row) ==
    IF GetDataRangeInSortingColumn = 0 THEN <<1, 0>> ELSE GetIndicesFromTotalIndex(SearchIndex(row), 0)

(***************************************************************************)
(* Writing into a block, at its end or between two of its rows.            *)
(***************************************************************************)
\* Mutant: the bits of the rows behind the new one stay where they are.
MaskKept(block, index, value) ==
    IF value = Null THEN block.mask \cup {index} ELSE block.mask

MaskInserted(block, index, value) ==
    LET new == IF value = Null THEN {index} ELSE {}
    IN IF index < Len(block.data)
       THEN {b \in block.mask : b < index} \cup new
                \cup {b + 1 : b \in {b \in block.mask : index <= b /\ b + 1 < Capacity}}
       ELSE block.mask \cup new

Inserted(block, index, value) ==
    Block(InsertAt(block.data, index + 1, DataOf(value)), MaskInserted(block, index, value))

(***************************************************************************)
(* BlockSplit.  The rows are divided at half the block's size.  The mask   *)
(* is divided at bit GetShiftMaskIdx of word GetBitMaskIdx, those of the   *)
(* last row of the lower half if the size is even.  A shift by a whole     *)
(* word has no defined result: the word stays, or it becomes zero.         *)
(***************************************************************************)
Word(mask, i) == {b - i * MaskBits : b \in {b \in mask : b \div MaskBits = i}}
FromWords(word) == UNION {{i * MaskBits + x : x \in word[i]} : i \in DOMAIN word}

\* GetPartOfBitmaskByte: the bits up to shift.
LowParts(word, shift) ==
    IF shift + 1 = MaskBits THEN {word, {}} ELSE {{x \in word : x <= shift}}

\* word >> (shift + 1)
Shifted(word, shift) ==
    IF shift + 1 = MaskBits THEN {word, {}} ELSE {{x - shift - 1 : x \in {x \in word : x > shift}}}

LastOfLower(n) == (n - 1) \div 2

Masks1(mask, w, s) ==
    {FromWords([i \in 0 .. w |-> IF i < w THEN Word(mask, i) ELSE part]) : part \in LowParts(Word(mask, w), s)}

Masks2(mask, w, s) ==
    LET low == IF w + 1 < Words THEN LowParts(Word(mask, w + 1), s) ELSE {{}}
        words == {word \in [0 .. (Words - 1 - w) -> SUBSET (0 .. (MaskBits - 1))] :
                    \E part \in low : \A i \in DOMAIN word :
                        \E high \in Shifted(Word(mask, w + i), s) : word[i] = high \cup part}
    IN {FromWords(word) : word \in words}

BlockSplit(block) ==
    LET n == Len(block.data)
        w == LastOfLower(n) \div MaskBits
        s == LastOfLower(n) % MaskBits
        half == n \div 2
    IN {<<Block(SubSeq(block.data, 1, half), m1), Block(SubSeq(block.data, half + 1, n), m2)>> :
            m1 \in Masks1(block.mask, w, s), m2 \in Masks2(block.mask, w, s)}

(***************************************************************************)
(* INSERT INTO                                                             *)
(***************************************************************************)
\* What InsertDataOnSpecificPosition may leave of a list of blocks.
InsertDataOnSpecificPosition(list, place, value) ==
    LET some == IF list = <<>> THEN <<Block(<<>>, {})>> ELSE list
        block == Inserted(some[place[1]], place[2], value)
    IN IF Len(block.data) = BlockSize
       THEN {SubSeq(some, 1, place[1] - 1) \o two \o SubSeq(some, place[1] + 1, Len(some)) : two \in BlockSplit(block)}
       ELSE {[some EXCEPT ![place[1]] = block]}

HasRoom(list, place) == list # <<>> => Len(list[place[1]].data) < BlockSize

InsertSorted(row) ==
    /\ sortingColumns # <<>>
    /\ Size("a", Len(blocks["a"])) < MaxRows
    /\ HasRoom(blocks["a"], GetIndex(row))
    /\ \E a \in InsertDataOnSpecificPosition(blocks["a"], GetIndex(row), row["a"]),
          b \in InsertDataOnSpecificPosition(blocks["b"], GetIndex(row), row["b"]) :
        blocks' = [c \in Columns |-> IF c = "a" THEN a ELSE b]
    /\ inserted' = [inserted EXCEPT ![row] = @ + 1]
    /\ UNCHANGED <<shape, sortingColumns, indexedFilled>>

\* Only a block that was filled before there was an index has no room: the
\* first column throws.
InsertThrows(row) ==
    /\ sortingColumns # <<>>
    /\ ~HasRoom(blocks["a"], GetIndex(row))
    /\ UNCHANGED vars

Appended(list, value) ==
    LET last == list[Len(list)]
        new == Block(<<DataOf(value)>>, IF value = Null THEN {0} ELSE {})
    IN IF list = <<>> \/ Len(last.data) = BlockSize
       THEN Append(list, new)
       ELSE [list EXCEPT ![Len(list)] = Inserted(last, Len(last.data), value)]

InsertData(row) ==
    /\ sortingColumns = <<>>
    /\ Size("a", Len(blocks["a"])) < MaxRows
    /\ blocks' = [c \in Columns |-> Appended(blocks[c], row[c])]
    /\ inserted' = [inserted EXCEPT ![row] = @ + 1]
    /\ UNCHANGED <<shape, sortingColumns, indexedFilled>>

TableIsEmpty == Size("a", Len(blocks["a"])) = 0

CreateIndex(index) ==
    /\ sortingColumns = <<>>
    /\ TableIsEmpty
    /\ sortingColumns' = index
    /\ UNCHANGED <<shape, blocks, inserted, indexedFilled>>

\* ALTER TABLE ... ADD INDEX does not look at the size of the table.
AlterTableAddIndex(index) ==
    /\ sortingColumns = <<>>
    /\ sortingColumns' = index
    /\ indexedFilled' = (indexedFilled \/ ~TableIsEmpty)
    /\ UNCHANGED <<shape, blocks, inserted>>

DropIndex ==
    /\ sortingColumns # <<>>
    /\ sortingColumns' = <<>>
    /\ UNCHANGED <<shape, blocks, inserted, indexedFilled>>

Init ==
    /\ shape \in Shapes
    /\ blocks = [c \in Columns |-> <<>>]
    /\ sortingColumns = <<>>
    /\ inserted = [row \in Row |-> 0]
    /\ indexedFilled = FALSE

Next ==
    \/ \E row \in Row : InsertSorted(row) \/ InsertThrows(row) \/ InsertData(row)
    \/ \E index \in Indexes : CreateIndex(index) \/ AlterTableAddIndex(index)
    \/ DropIndex

Spec == Init /\ [][Next]_vars
-----------------------------------------------------------------------------
\* The rows of the table as queries read them, and the values alone.
ColumnRead(c) ==
    FlattenSeq([n \in DOMAIN blocks[c] |-> [i \in DOMAIN blocks[c][n].data |-> At(blocks[c][n], i)]])
ColumnData(c) == FlattenSeq([n \in DOMAIN blocks[c] |-> blocks[c][n].data])

\* BlockSplit cuts the mask where it cuts the rows: at an even size, inside
\* the only word.
CutsMaskAtHalf == BlockSize % 2 = 0 /\ BlockSize <= MaskBits

\* The columns are lists of blocks of at most BlockSize rows.  Where the mask
\* is cut right no bit is set behind the last row: appending a value does not
\* clear it.
TypeOK ==
    /\ \A c \in Columns : \A i \in DOMAIN blocks[c] :
        /\ Len(blocks[c][i].data) \in 1 .. BlockSize
        /\ blocks[c][i].mask \subseteq 0 .. (Capacity - 1)
        /\ CutsMaskAtHalf => blocks[c][i].mask \subseteq 0 .. (Len(blocks[c][i].data) - 1)
    /\ sortingColumns \in Indexes \cup {<<>>}

\* Every row is there as often as it was inserted, each of its columns with
\* its value: positions found in one column are used in all of them.
ValuesTogether ==
    LET a == ColumnData("a")
        b == ColumnData("b")
        count(row) == Cardinality({i \in DOMAIN a : a[i] = DataOf(row["a"]) /\ b[i] = DataOf(row["b"])})
    IN /\ Len(a) = Len(b)
       /\ \A row \in Row : count(row) = inserted[row]

\* The same of the rows with their nulls: each is null where it was inserted
\* as null, whatever has been inserted before it and split since.
NullsTogether ==
    LET a == ColumnRead("a")
        b == ColumnRead("b")
        count(row) == Cardinality({i \in DOMAIN a : a[i] = row["a"] /\ b[i] = row["b"]})
    IN \A row \in Row : count(row) = inserted[row]

\* Rows keep their values, and their nulls where the mask is cut right.
RowsIntact == TypeOK /\ ValuesTogether /\ (CutsMaskAtHalf => NullsTogether)

\* A table with an index created when it was empty is sorted by it, nulls
\* first, as long as its nulls can be trusted.
RowsSorted ==
    LET read == [c \in Columns |-> ColumnRead(c)]
        row(i) == [c \in Columns |-> read[c][i]]
    IN sortingColumns # <<>> /\ ~indexedFilled /\ CutsMaskAtHalf =>
            \A i \in 1 .. (Len(read["a"]) - 1) : ~RowLower(row(i + 1), row(i))

\* Insertion through such an index leaves room in every block for the next
\* one, so that BlockBase's length_error is never thrown half way through a
\* batch.
RoomInEveryBlock ==
    sortingColumns # <<>> /\ ~indexedFilled =>
        \A c \in Columns : \A i \in DOMAIN blocks[c] : Len(blocks[c][i].data) < BlockSize

\* InsertDataOnSpecificPosition can rely on both: GetIndex finds a position by
\* binary search, and the block it finds can take the row.
Sorted == RowsSorted /\ RoomInEveryBlock
=============================================================================
