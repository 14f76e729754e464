--------------------------- MODULE TableConstraints ---------------------------
(***************************************************************************)
(* The constraints of a table: NOT NULL, UNIQUE and INDEX, added to and    *)
(* dropped from lists of columns, enforced by INSERT INTO, and carried     *)
(* (or not) through ALTER TABLE and a restart of the server.               *)
(* (src/qikkDB/Table.cpp AddConstraint, DropConstraint, InsertData;        *)
(* ColumnBase.h SetIsNullable, SetIsUnique; GpuSqlParser/                  *)
(* GpuSqlListener.cpp exitSqlAlterTable; GpuSqlDispatcher.cpp AlterTable;  *)
(* Database.cpp ChangeTableBlockSize, PersistOnlyDbFile, LoadDatabase.)    *)
(*                                                                         *)
(* A statement runs with the mutex of the database held, so each is one    *)
(* step.  What the table has recorded (constraints_, sortingColumns_) and  *)
(* what its columns enforce (isNullable_, isUnique_, uniqueHashmap_) are   *)
(* separate pieces of state.  Where a loop over the columns of a           *)
(* constraint throws, the columns before that one are rolled back.         *)
(***************************************************************************)
EXTENDS Integers, Sequences

CONSTANTS
    Columns,        \* names of columns
    Values, Null,   \* what a row may hold in a column
    Names,          \* names of constraints
    MaxListed,      \* bound on the columns of a constraint
    MaxRows,        \* bound on the rows of the table
    MaxBatch        \* bound on the rows of one INSERT

ASSUME ConstraintAssumption ==
    /\ Null \notin Values
    /\ MaxListed \in Nat /\ MaxRows \in Nat /\ MaxBatch \in Nat

VARIABLES
    columns,        \* the names in columns_
    rows,           \* the table, row by row; Null where a column does not exist
    isNullable, isUnique, uniqueHashmap,    \* of each column
    sortingColumns, \* the members of sortingColumns_
    constraints,    \* constraints_: name |-> its type and columns
    outcome,        \* of the last statement; "dropped" for a DROP COLUMN
    altered         \* history: what has been done besides INSERT and constraints

flagVars == <<isNullable, isUnique, uniqueHashmap, sortingColumns>>
vars == <<columns, rows, flagVars, constraints, outcome, altered>>

Row == [Columns -> Values \cup {Null}]
ConstraintType == {"INDEX", "NOT NULL", "UNIQUE"}

\* The columns a constraint may list: each of them once.
ColumnLists ==
    {list \in UNION {[1 .. n -> Columns] : n \in 1 .. MaxListed} :
        \A i, j \in DOMAIN list : list[i] = list[j] => i = j}

Constraint(type, list) == [type |-> type, list |-> list]
NoConstraint == Constraint("NONE", <<>>)
Recorded == {name \in Names : constraints[name] # NoConstraint}

ValuesOf(table, c) == {table[i][c] : i \in DOMAIN table}

\* The columns of a list that a loop gets through before it meets a bad one.
Before(list, bad) == {list[i] : i \in {j \in DOMAIN list : \A k \in 1 .. j : list[k] \notin bad}}
Listed(list) == Before(list, {})
Completes(list, bad) == Listed(list) \cap bad = {}

(***************************************************************************)
(* INSERT INTO: every row of the batch is checked before any is inserted.  *)
(***************************************************************************)
Batches == UNION {[1 .. n -> Row] : n \in 1 .. MaxBatch}

CheckNullableConstraintInData(batch) ==
    \A c \in columns : ~isNullable[c] => \A i \in DOMAIN batch : batch[i][c] # Null

\* Mutant: the rows of a batch are compared with the table only.
CheckWithoutBatch(batch) ==
    \A c \in columns : isUnique[c] => \A i \in DOMAIN batch : batch[i][c] \notin uniqueHashmap[c]

CheckUniqueConstraintInData(batch) ==
    \A c \in columns : isUnique[c] =>
        \A i \in DOMAIN batch :
            /\ batch[i][c] \notin uniqueHashmap[c]
            /\ \A j \in 1 .. (i - 1) : batch[j][c] # batch[i][c]

\* Where a row goes in a table with an index is the subject of ClusteredTable.
\* With an index on a column that is gone the server does not survive InsertData.
InsertData(batch) ==
    /\ columns # {} /\ sortingColumns \subseteq columns
    /\ Len(rows) + Len(batch) <= MaxRows
    /\ \A i \in DOMAIN batch, c \in Columns \ columns : batch[i][c] = Null
    /\ CheckNullableConstraintInData(batch)
    /\ CheckUniqueConstraintInData(batch)
    /\ rows' = rows \o batch
    /\ uniqueHashmap' = [c \in Columns |-> uniqueHashmap[c] \cup IF isUnique[c] THEN ValuesOf(batch, c) ELSE {}]
    /\ outcome' = "ok"
    /\ UNCHANGED <<columns, isNullable, isUnique, sortingColumns, constraints, altered>>

InsertRefused(batch) ==
    /\ ~(CheckNullableConstraintInData(batch) /\ CheckUniqueConstraintInData(batch))
    /\ outcome' = "error"
    /\ UNCHANGED <<columns, rows, flagVars, constraints, altered>>

(***************************************************************************)
(* SetIsNullable and SetIsUnique on the columns of a constraint: those     *)
(* on which setting it throws, and those on which taking it back does.     *)
(***************************************************************************)
HasDuplicate(c) == \E i, j \in DOMAIN rows : i # j /\ rows[i][c] = rows[j][c]
HasNull(c) == Null \in ValuesOf(rows, c)

\* Mutant: the values that are there already are not looked at.
CannotSetIfNullable(type) == {c \in columns : type = "UNIQUE" /\ isNullable[c]}

CannotSet(type) ==
    {c \in columns : \/ type = "NOT NULL" /\ HasNull(c)
                     \/ type = "UNIQUE" /\ (isNullable[c] \/ HasDuplicate(c))}

CannotUnset(type) ==
    {c \in Columns : \/ type # "INDEX" /\ c \notin columns
                     \/ type = "NOT NULL" /\ isUnique[c]}

\* Mutant: setting UNIQUE does not collect the values that are there.
NoValues(c) == {}

CollectedValues(c) == ValuesOf(rows, c)

\* The columns in on end up with the constraint, those in off without it.
SetFlags(type, on, off) ==
    /\ isNullable' = [c \in Columns |->
            (isNullable[c] /\ ~(type = "NOT NULL" /\ c \in on)) \/ (type = "NOT NULL" /\ c \in off)]
    /\ isUnique' = [c \in Columns |->
            (isUnique[c] /\ ~(type = "UNIQUE" /\ c \in off)) \/ (type = "UNIQUE" /\ c \in on)]
    /\ uniqueHashmap' = [c \in Columns |->
            IF type = "UNIQUE" /\ c \in on \cup off
            THEN IF c \in on THEN CollectedValues(c) ELSE {}
            ELSE uniqueHashmap[c]]
    /\ sortingColumns' = IF type = "INDEX" THEN (sortingColumns \cup on) \ off ELSE sortingColumns

(***************************************************************************)
(* ALTER TABLE ADD and DROP of a constraint.  The listener has refused     *)
(* names that are taken, columns that do not exist, and columns that have  *)
(* a constraint of that type already (GetConstraintsForColumn).  When a    *)
(* column throws, the catch block takes back what was done to the columns  *)
(* before it, until one of these throws in turn.                           *)
(***************************************************************************)
Constrained(type) ==
    {c \in columns : \/ type = "NOT NULL" /\ ~isNullable[c]
                     \/ type = "UNIQUE" /\ isUnique[c]
                     \/ type = "INDEX" /\ c \in sortingColumns}

ListenerAccepts(name, type, list) ==
    /\ name \notin Recorded
    /\ Listed(list) \subseteq columns
    /\ Listed(list) \cap Constrained(type) = {}

AddConstraint(name, type, list) ==
    /\ ListenerAccepts(name, type, list)
    /\ Completes(list, CannotSet(type))
    /\ SetFlags(type, Listed(list), {})
    /\ constraints' = [constraints EXCEPT ![name] = Constraint(type, list)]
    /\ outcome' = "ok"
    /\ UNCHANGED <<columns, rows, altered>>

\* Mutant: the columns before the one that throws keep the constraint.
NothingTakenBack(type, list) == {}

TakenBack(type, list) == Before(list, CannotSet(type) \cup CannotUnset(type))

AddConstraintThrows(name, type, list) ==
    /\ ListenerAccepts(name, type, list)
    /\ ~Completes(list, CannotSet(type))
    /\ SetFlags(type, Before(list, CannotSet(type)) \ TakenBack(type, list), TakenBack(type, list))
    /\ outcome' = "error"
    /\ UNCHANGED <<columns, rows, constraints, altered>>

DropConstraint(name) ==
    LET type == constraints[name].type
        list == constraints[name].list
    IN
    /\ name \in Recorded
    /\ Completes(list, CannotUnset(type))
    /\ SetFlags(type, {}, Listed(list))
    /\ constraints' = [constraints EXCEPT ![name] = NoConstraint]
    /\ outcome' = "ok"
    /\ UNCHANGED <<columns, rows, altered>>

\* Mutant: the columns before the one that throws are not restored.
NotRestored(type, list) == {}

Restored(type, list) == Before(list, CannotUnset(type) \cup CannotSet(type))

DropConstraintThrows(name) ==
    LET type == constraints[name].type
        list == constraints[name].list
    IN
    /\ name \in Recorded
    /\ ~Completes(list, CannotUnset(type))
    /\ SetFlags(type, Restored(type, list), Before(list, CannotUnset(type)) \ Restored(type, list))
    /\ outcome' = "error"
    /\ UNCHANGED <<columns, rows, constraints, altered>>

(***************************************************************************)
(* ALTER TABLE on columns: constraints_ and sortingColumns_ are left as    *)
(* they were.                                                              *)
(***************************************************************************)
Columnwise(c, cast) == [i \in DOMAIN rows |-> [d \in Columns |-> IF d = c THEN cast[rows[i][c]] ELSE rows[i][d]]]
AllNull == [v \in Values \cup {Null} |-> Null]

\* A column created by CreateColumn with its defaults.
Fresh(c) ==
    /\ isNullable' = [isNullable EXCEPT ![c] = TRUE]
    /\ isUnique' = [isUnique EXCEPT ![c] = FALSE]
    /\ uniqueHashmap' = [uniqueHashmap EXCEPT ![c] = {}]

AddColumn(c) ==
    /\ altered' = altered \cup {"columns"}
    /\ c \notin columns
    /\ columns' = columns \cup {c}
    /\ outcome' = "ok"
    /\ Fresh(c)
    /\ UNCHANGED <<rows, sortingColumns, constraints>>

EraseColumn(c) ==
    /\ altered' = altered \cup {"columns"}
    /\ c \in columns
    /\ columns' = columns \ {c}
    /\ rows' = IF columns = {c} THEN <<>> ELSE Columnwise(c, AllNull)
    /\ Fresh(c)
    /\ outcome' = "dropped"
    /\ UNCHANGED <<sortingColumns, constraints>>

\* CopyDataToColumn into a new column of the other type: a value that cannot
\* be converted becomes null.
AlterColumn(c) ==
    /\ altered' = altered \cup {"columns"}
    /\ c \in columns
    /\ \E cast \in [Values \cup {Null} -> Values \cup {Null}] :
        cast[Null] = Null /\ rows' = Columnwise(c, cast)
    /\ Fresh(c)
    /\ outcome' = "ok"
    /\ UNCHANGED <<columns, sortingColumns, constraints>>

Moved(f, from, to, empty) == [f EXCEPT ![to] = f[from], ![from] = empty]

RenameColumn(from, to) ==
    /\ altered' = altered \cup {"columns"}
    /\ from \in columns /\ to \in Columns \ columns
    /\ columns' = (columns \ {from}) \cup {to}
    /\ rows' = [i \in DOMAIN rows |-> Moved(rows[i], from, to, Null)]
    /\ isNullable' = Moved(isNullable, from, to, TRUE)
    /\ isUnique' = Moved(isUnique, from, to, FALSE)
    /\ uniqueHashmap' = Moved(uniqueHashmap, from, to, {})
    /\ outcome' = "ok"
    /\ UNCHANGED <<sortingColumns, constraints>>

\* A new name that another column has: the node is taken out of columns_ and
\* cannot be put in again.
RenameColumnOntoOther(from, to) ==
    /\ altered' = altered \cup {"columns"}
    /\ {from, to} \subseteq columns /\ from # to
    /\ columns' = columns \ {from}
    /\ rows' = Columnwise(from, AllNull)
    /\ Fresh(from)
    /\ outcome' = "ok"
    /\ UNCHANGED <<sortingColumns, constraints>>

(***************************************************************************)
(* ALTER BLOCK SIZE copies the columns into a new table; a restart reads   *)
(* what PersistOnlyDbFile has written.                                     *)
(***************************************************************************)
Forgotten == [name \in Names |-> NoConstraint]

ChangeTableBlockSize ==
    /\ altered' = altered \cup {"block size"}
    /\ uniqueHashmap' = [c \in Columns |-> {}]
    /\ sortingColumns' = {}
    /\ constraints' = Forgotten
    /\ outcome' = "ok"
    /\ UNCHANGED <<columns, rows, isNullable, isUnique>>

\* LoadColumn throws on duplicates in a UNIQUE column.
Restart ==
    /\ altered' = altered \cup {"restarted"}
    /\ \A c \in columns : isUnique[c] => ~HasDuplicate(c)
    /\ uniqueHashmap' = [c \in Columns |-> IF isUnique[c] THEN ValuesOf(rows, c) ELSE {}]
    /\ constraints' = Forgotten
    /\ outcome' = "ok"
    /\ UNCHANGED <<columns, rows, isNullable, isUnique, sortingColumns>>

Init ==
    /\ columns \in SUBSET Columns /\ columns # {}
    /\ rows = <<>>
    /\ isNullable = [c \in Columns |-> TRUE]
    /\ isUnique = [c \in Columns |-> FALSE]
    /\ uniqueHashmap = [c \in Columns |-> {}]
    /\ sortingColumns = {}
    /\ constraints = Forgotten
    /\ outcome = "ok"
    /\ altered = {}

Next ==
    \/ \E batch \in Batches : InsertData(batch) \/ InsertRefused(batch)
    \/ \E name \in Names, type \in ConstraintType, list \in ColumnLists :
        AddConstraint(name, type, list) \/ AddConstraintThrows(name, type, list)
    \/ \E name \in Names : DropConstraint(name) \/ DropConstraintThrows(name)
    \/ \E c \in Columns : AddColumn(c) \/ EraseColumn(c) \/ AlterColumn(c)
    \/ \E from, to \in Columns : RenameColumn(from, to) \/ RenameColumnOntoOther(from, to)
    \/ ChangeTableBlockSize \/ Restart

Spec == Init /\ [][Next]_vars
-----------------------------------------------------------------------------
TableTyped ==
    /\ columns \subseteq Columns
    /\ rows \in Seq(Row)
    /\ isNullable \in [Columns -> BOOLEAN] /\ isUnique \in [Columns -> BOOLEAN]
    /\ uniqueHashmap \in [Columns -> SUBSET Values]
    /\ sortingColumns \subseteq Columns
    /\ constraints \in [Names -> {NoConstraint} \cup [type: ConstraintType, list: ColumnLists]]
    /\ outcome \in {"ok", "error", "dropped"}

\* The table and the flags of its columns are of their kinds; a null, which
\* is no value of the column's type, is never in uniqueHashmap_.
TypeOK == TableTyped /\ altered \subseteq {"columns", "block size", "restarted"}

\* A column that is not nullable holds no null, whatever constraints were
\* added, dropped and rolled back, and whatever its column was cast to.
NotNullHolds == \A c \in columns : ~isNullable[c] => Null \notin ValuesOf(rows, c)

\* UNIQUE implies NOT NULL: SetIsUnique refuses a nullable column, and
\* SetIsNullable refuses to drop NOT NULL from a unique one.
UniqueIsNotNull == \A c \in columns : isUnique[c] => ~isNullable[c]

\* A unique column "can have only unique values".
NoDuplicates == \A c \in columns : isUnique[c] => ~HasDuplicate(c)

\* The same as long as block sizes are not altered.
UniqueHolds == "block size" \notin altered => NoDuplicates

\* uniqueHashmap_, which INSERT consults instead of the data, is what the
\* column holds.
HashmapCurrent == \A c \in columns : isUnique[c] => uniqueHashmap[c] = ValuesOf(rows, c)

\* The same as long as block sizes are not altered: every other statement, the
\* roll backs and a restart keep it exact.
HashmapExact == "block size" \notin altered => HashmapCurrent

\* Every constraint that the table has on record is enforced by all of its
\* columns, as long as none was dropped, renamed or recast.
ConstraintsEnforced ==
    "columns" \notin altered =>
        \A name \in Recorded : Listed(constraints[name].list) \subseteq Constrained(constraints[name].type)

\* A flag that forbids a value can be traced to a constraint on record, which
\* is what DROP needs: the error "column has UNIQUE constraint (drop this
\* constraint first)" names something that can be dropped.  A restart and
\* statements that recreate the table lose the record.
FlagsOnRecord ==
    altered = {} =>
        \A c \in columns, type \in {"NOT NULL", "UNIQUE"} :
            c \in Constrained(type) =>
                \E name \in Recorded : constraints[name].type = type /\ c \in Listed(constraints[name].list)

\* Flags and constraints on record say the same of every column.
FlagsConsistent == TypeOK /\ UniqueIsNotNull /\ ConstraintsEnforced /\ FlagsOnRecord

\* A statement that throws leaves the table as it was: the roll back of
\* AddConstraint and of DropConstraint restores every flag, if the columns of
\* the constraint are still there.
ErrorsChangeNothing ==
    [][outcome' = "error" /\ "columns" \notin altered =>
        UNCHANGED <<columns, rows, flagVars, constraints>>]_vars
=============================================================================
