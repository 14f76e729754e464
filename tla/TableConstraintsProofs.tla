------------------------ MODULE TableConstraintsProofs ------------------------
(***************************************************************************)
(* Proofs about the constraints of a table, for any columns, values, names *)
(* of constraints and bounds: what NOT NULL and UNIQUE promise is kept by  *)
(* every statement, ALTER BLOCK SIZE excepted for UNIQUE; the flags of the *)
(* columns agree with the constraints on record; and a statement that      *)
(* throws has rolled back what it did.                                     *)
(***************************************************************************)
EXTENDS TableConstraints, TLAPS

\* A name that is not a column of the table carries no flag of one.
AbsentUnflagged == \A c \in Columns \ columns : isNullable[c] /\ ~isUnique[c]

\* The flags are of their kinds, and agree with the rows and with each other.
FlagsSound ==
    /\ isNullable \in [Columns -> BOOLEAN]
    /\ isUnique \in [Columns -> BOOLEAN]
    /\ uniqueHashmap \in [Columns -> SUBSET Values]
    /\ sortingColumns \subseteq Columns
    /\ NotNullHolds /\ UniqueIsNotNull /\ AbsentUnflagged

\* A constraint ends up set on the columns in on and taken back from those in
\* off, none of which refused.
FlagStep(type, on, off) ==
    /\ on \cap CannotSet(type) = {} /\ (on \subseteq columns \/ on \cap CannotUnset(type) = {})
    /\ off \cap CannotUnset(type) = {}
    /\ on \cap off = {}
    /\ SetFlags(type, on, off)
    /\ UNCHANGED <<columns, rows>>

NotNullInv == TableTyped /\ NotNullHolds /\ UniqueIsNotNull /\ AbsentUnflagged

\* Inserting goes by uniqueHashmap_: it has to be exact for UNIQUE to hold.
UniqueInv == NotNullInv /\ NoDuplicates /\ HashmapCurrent

-----------------------------------------------------------------------------
\* The columns a loop gets through are listed, and none of them is bad.
LEMMA BeforeFacts ==
    ASSUME NEW list \in ColumnLists, NEW bad, NEW more
    PROVE  /\ Before(list, bad) \subseteq Columns
           /\ Before(list, bad) \cap bad = {}
           /\ Before(list, bad \cup more) \cap more = {}
           /\ Listed(list) \subseteq Columns
<1>1. PICK n \in 1 .. MaxListed : list \in [1 .. n -> Columns]
  BY Zenon DEF ColumnLists
<1>2. n \in Nat
  BY ConstraintAssumption
<1> QED
  BY <1>1, <1>2 DEF Before, Listed

\* What a constraint on record is made of.
LEMMA RecordedFacts ==
    ASSUME TableTyped, NEW name \in Recorded
    PROVE  constraints[name].type \in ConstraintType /\ constraints[name].list \in ColumnLists
BY Zenon DEF TableTyped, Recorded

\* Where NOT NULL or UNIQUE ends up set no column refused it, and where it
\* ends up taken back no column refused that: then the flags stay sound.
LEMMA FlagsStaySound ==
    ASSUME NotNullInv, NEW type \in ConstraintType, NEW on \in SUBSET Columns, NEW off \in SUBSET Columns,
           FlagStep(type, on, off)
    PROVE  FlagsSound'
<1> USE DEF NotNullInv, TableTyped, FlagsSound, FlagStep
<1>1. CASE type = "INDEX"
  BY <1>1 DEF SetFlags, NotNullHolds, UniqueIsNotNull, AbsentUnflagged, ValuesOf
<1>2. CASE type = "NOT NULL"
  <2>1. on \subseteq columns /\ off \subseteq columns
    BY <1>2, Zenon DEF CannotUnset
  <2>2. \A c \in on : ~HasNull(c)
    BY <1>2, <2>1, Zenon DEF CannotSet
  <2>3. \A c \in off : ~isUnique[c]
    BY <1>2, <2>1, Zenon DEF CannotUnset
  <2>4. /\ isUnique' = isUnique /\ uniqueHashmap' = uniqueHashmap /\ sortingColumns' = sortingColumns
        /\ isNullable' \in [Columns -> BOOLEAN]
        /\ \A c \in Columns : isNullable'[c] <=> (isNullable[c] /\ c \notin on) \/ c \in off
    BY <1>2, Zenon DEF SetFlags
  <2>5. NotNullHolds'
    BY <2>1, <2>2, <2>4 DEF NotNullHolds, ValuesOf, HasNull
  <2>6. UniqueIsNotNull' /\ AbsentUnflagged'
    BY <2>1, <2>3, <2>4, Zenon DEF UniqueIsNotNull, AbsentUnflagged
  <2> QED
    BY <2>4, <2>5, <2>6, Zenon
<1>3. CASE type = "UNIQUE"
  <2>1. on \subseteq columns /\ off \subseteq columns
    BY <1>3, Zenon DEF CannotUnset
  <2>2. \A c \in on : ~isNullable[c]
    BY <1>3, <2>1, Zenon DEF CannotSet
  <2>3. \A c \in on : ValuesOf(rows, c) \subseteq Values
    BY <2>1, <2>2 DEF NotNullHolds, ValuesOf, Row
  <2>4. uniqueHashmap' \in [Columns -> SUBSET Values]
    BY <1>3, <2>3, Zenon DEF SetFlags, CollectedValues
  <2>5. /\ isNullable' = isNullable /\ sortingColumns' = sortingColumns
        /\ isUnique' \in [Columns -> BOOLEAN]
        /\ \A c \in Columns : isUnique'[c] <=> (isUnique[c] /\ c \notin off) \/ c \in on
    BY <1>3, Zenon DEF SetFlags
  <2> QED
    BY <2>1, <2>2, <2>4, <2>5 DEF NotNullHolds, UniqueIsNotNull, AbsentUnflagged, ValuesOf
<1> QED
  BY <1>1, <1>2, <1>3, Zenon DEF ConstraintType


\* Adding or dropping a constraint, completed or rolled back, is such a step.
LEMMA ConstraintSteps ==
    ASSUME TableTyped, NEW name \in Names,
           \/ \E type \in ConstraintType, list \in ColumnLists :
                AddConstraint(name, type, list) \/ AddConstraintThrows(name, type, list)
           \/ DropConstraint(name) \/ DropConstraintThrows(name)
    PROVE  /\ \E type \in ConstraintType, on, off \in SUBSET Columns : FlagStep(type, on, off)
           /\ constraints' \in [Names -> {NoConstraint} \cup [type: ConstraintType, list: ColumnLists]]
           /\ outcome' \in {"ok", "error"}
<1>1. ASSUME NEW type \in ConstraintType, NEW list \in ColumnLists, AddConstraint(name, type, list)
      PROVE  \E on, off \in SUBSET Columns : FlagStep(type, on, off)
  <2>1. FlagStep(type, Listed(list), {})
    BY <1>1, Zenon DEF AddConstraint, ListenerAccepts, Completes, FlagStep
  <2> QED
    BY <2>1, BeforeFacts, Zenon
<1>2. ASSUME NEW type \in ConstraintType, NEW list \in ColumnLists, AddConstraintThrows(name, type, list)
      PROVE  \E on, off \in SUBSET Columns : FlagStep(type, on, off)
  <2> DEFINE off == TakenBack(type, list)
             on == Before(list, CannotSet(type)) \ off
  <2>1. /\ on \subseteq Columns /\ off \subseteq Columns /\ on \cap off = {}
        /\ on \cap CannotSet(type) = {} /\ off \cap CannotUnset(type) = {}
    BY BeforeFacts, Zenon DEF TakenBack
  <2>2. on \subseteq columns
    BY <1>2, Zenon DEF AddConstraintThrows, ListenerAccepts, Listed, Before
  <2>3. SetFlags(type, on, off) /\ UNCHANGED <<columns, rows>>
    BY <1>2, Zenon DEF AddConstraintThrows
  <2> HIDE DEF on, off
  <2> QED
    BY <2>1, <2>2, <2>3, Zenon DEF FlagStep
<1>3. ASSUME DropConstraint(name)
      PROVE  \E type \in ConstraintType, on, off \in SUBSET Columns : FlagStep(type, on, off)
  <2> DEFINE type == constraints[name].type
             list == constraints[name].list
  <2>1. type \in ConstraintType /\ list \in ColumnLists
    BY <1>3, RecordedFacts, Zenon DEF DropConstraint
  <2>2. FlagStep(type, {}, Listed(list))
    BY <1>3, Zenon DEF DropConstraint, Completes, FlagStep
  <2> HIDE DEF type, list
  <2> QED
    BY <2>1, <2>2, BeforeFacts, Zenon
<1>4. ASSUME DropConstraintThrows(name)
      PROVE  \E type \in ConstraintType, on, off \in SUBSET Columns : FlagStep(type, on, off)
  <2> DEFINE type == constraints[name].type
             list == constraints[name].list
             on == Restored(type, list)
             off == Before(list, CannotUnset(type)) \ on
  <2>1. type \in ConstraintType /\ list \in ColumnLists
    BY <1>4, RecordedFacts, Zenon DEF DropConstraintThrows
  <2>2. SetFlags(type, on, off) /\ UNCHANGED <<columns, rows>>
    BY <1>4, Zenon DEF DropConstraintThrows
  <2> HIDE DEF type, list
  <2>3. /\ on \subseteq Columns /\ off \subseteq Columns /\ on \cap off = {}
        /\ on \cap CannotSet(type) = {} /\ on \cap CannotUnset(type) = {}
        /\ off \cap CannotUnset(type) = {}
    BY <2>1, BeforeFacts, Zenon DEF Restored
  <2> HIDE DEF on, off
  <2> QED
    BY <2>1, <2>2, <2>3, Zenon DEF FlagStep
<1>5. constraints' \in [Names -> {NoConstraint} \cup [type: ConstraintType, list: ColumnLists]]
  <2>1. ASSUME NEW type \in ConstraintType, NEW list \in ColumnLists
        PROVE  Constraint(type, list) \in [type: ConstraintType, list: ColumnLists]
    BY Zenon DEF Constraint
  <2>2. ASSUME NEW type \in ConstraintType, NEW list \in ColumnLists,
               AddConstraint(name, type, list) \/ AddConstraintThrows(name, type, list)
        PROVE  constraints' \in [Names -> {NoConstraint} \cup [type: ConstraintType, list: ColumnLists]]
    BY <2>1, <2>2 DEF TableTyped, AddConstraint, AddConstraintThrows
  <2>3. ASSUME DropConstraint(name) \/ DropConstraintThrows(name)
        PROVE  constraints' \in [Names -> {NoConstraint} \cup [type: ConstraintType, list: ColumnLists]]
    BY <2>3, Zenon DEF TableTyped, DropConstraint, DropConstraintThrows
  <2> QED
    BY <2>2, <2>3, Zenon
<1>6. outcome' \in {"ok", "error"}
  BY Zenon DEF AddConstraint, AddConstraintThrows, DropConstraint, DropConstraintThrows
<1> QED
  BY <1>1, <1>2, <1>3, <1>4, <1>5, <1>6, Zenon

\* INSERT INTO: the rows it adds hold a null in no column that forbids it.
LEMMA InsertSound ==
    ASSUME NotNullInv, NEW batch \in Batches, InsertData(batch)
    PROVE  NotNullInv'
<1> USE DEF NotNullInv, TableTyped
<1>1. PICK n \in 1 .. MaxBatch : batch \in [1 .. n -> Row]
  BY Zenon DEF Batches
<1>2. n \in Nat /\ batch \in Seq(Row) /\ DOMAIN batch = 1 .. n
  BY <1>1, ConstraintAssumption
<1>3. rows' \in Seq(Row) /\ UNCHANGED <<columns, isNullable, isUnique, sortingColumns, constraints>>
  BY <1>2 DEF InsertData
<1>4. \A c \in columns : ~isNullable[c] => \A i \in DOMAIN batch : batch[i][c] # Null
  BY Zenon DEF InsertData, CheckNullableConstraintInData
<1>5. \A i \in DOMAIN rows' : (i \in DOMAIN rows /\ rows'[i] = rows[i]) \/ (\E j \in DOMAIN batch : rows'[i] = batch[j])
  <2> SUFFICES ASSUME NEW i \in DOMAIN rows', i \notin DOMAIN rows
               PROVE  \E j \in DOMAIN batch : rows'[i] = batch[j]
    BY <1>2 DEF InsertData
  <2>1. i - Len(rows) \in DOMAIN batch /\ rows'[i] = batch[i - Len(rows)]
    BY <1>2 DEF InsertData
  <2> QED
    BY <2>1, Zenon
<1>6. NotNullHolds'
  BY <1>3, <1>4, <1>5 DEF NotNullHolds, ValuesOf
<1>7. \A c \in Columns : isUnique[c] => ValuesOf(batch, c) \subseteq Values
  BY <1>2, <1>4 DEF UniqueIsNotNull, AbsentUnflagged, ValuesOf, Row
<1>8. uniqueHashmap' \in [Columns -> SUBSET Values]
  BY <1>7, Zenon DEF InsertData
<1> QED
  BY <1>3, <1>6, <1>8, Zenon DEF InsertData, UniqueIsNotNull, AbsentUnflagged


\* Columns that agree row by row hold the same values.
LEMMA SameValues ==
    ASSUME NEW s, NEW t, NEW c, NEW d, DOMAIN s = DOMAIN t, \A i \in DOMAIN s : s[i][c] = t[i][d]
    PROVE  ValuesOf(s, c) = ValuesOf(t, d)
BY Zenon DEF ValuesOf

\* Casting one column, or emptying it, keeps rows rows and the other columns.
LEMMA ColumnwiseFacts ==
    ASSUME TableTyped, NEW c \in Columns, NEW cast \in [Values \cup {Null} -> Values \cup {Null}]
    PROVE  /\ Columnwise(c, cast) \in Seq(Row)
           /\ DOMAIN Columnwise(c, cast) = DOMAIN rows
           /\ \A d \in Columns \ {c} : \A i \in DOMAIN rows : Columnwise(c, cast)[i][d] = rows[i][d]
           /\ \A d \in Columns \ {c} : ValuesOf(Columnwise(c, cast), d) = ValuesOf(rows, d)
<1>1. rows \in [1 .. Len(rows) -> Row] /\ Len(rows) \in Nat
  BY DEF TableTyped
<1>2. Columnwise(c, cast) \in [1 .. Len(rows) -> Row]
  BY <1>1, Zenon DEF Columnwise, Row
<1>3. \A d \in Columns \ {c} : \A i \in DOMAIN rows : Columnwise(c, cast)[i][d] = rows[i][d]
  BY Zenon DEF Columnwise
<1>4. DOMAIN Columnwise(c, cast) = DOMAIN rows
  BY Zenon DEF Columnwise
<1> HIDE DEF Columnwise
<1> QED
  BY <1>1, <1>2, <1>3, <1>4 DEF ValuesOf

\* A column with the flags of a new one forbids nothing.
LEMMA FreshSound ==
    ASSUME NotNullInv, NEW c \in Columns, Fresh(c),
           \A d \in columns' \ {c} : d \in columns /\ ValuesOf(rows', d) \subseteq ValuesOf(rows, d),
           columns \ columns' \subseteq {c}, columns' \subseteq Columns,
           rows' \in Seq(Row), UNCHANGED <<sortingColumns, constraints>>,
           outcome' \in {"ok", "dropped"}
    PROVE  NotNullInv'
<1> USE DEF NotNullInv, TableTyped
<1>1. /\ isNullable' \in [Columns -> BOOLEAN] /\ isUnique' \in [Columns -> BOOLEAN]
      /\ uniqueHashmap' \in [Columns -> SUBSET Values]
      /\ isNullable'[c] /\ ~isUnique'[c]
      /\ \A d \in Columns \ {c} : (isNullable'[d] <=> isNullable[d]) /\ (isUnique'[d] <=> isUnique[d])
  BY Zenon DEF Fresh
<1>2. NotNullHolds'
  BY <1>1, Zenon DEF NotNullHolds
<1>3. UniqueIsNotNull'
  BY <1>1, Zenon DEF UniqueIsNotNull
<1>4. AbsentUnflagged'
  BY <1>1 DEF AbsentUnflagged
<1> QED
  BY <1>1, <1>2, <1>3, <1>4, Zenon

\* ALTER TABLE on columns.
LEMMA ColumnStepsSound ==
    ASSUME NotNullInv, NEW c \in Columns, AddColumn(c) \/ EraseColumn(c) \/ AlterColumn(c)
    PROVE  NotNullInv'
<1> USE DEF NotNullInv, TableTyped
<1>1. CASE AddColumn(c)
  <2>1. /\ Fresh(c) /\ columns' = columns \cup {c} /\ rows' = rows
        /\ UNCHANGED <<sortingColumns, constraints>> /\ outcome' = "ok"
    BY <1>1, Zenon DEF AddColumn
  <2> QED
    BY <2>1, FreshSound, Zenon DEF ValuesOf
<1>2. CASE EraseColumn(c)
  <2>1. /\ Fresh(c) /\ columns' = columns \ {c} /\ rows' = IF columns = {c} THEN <<>> ELSE Columnwise(c, AllNull)
        /\ UNCHANGED <<sortingColumns, constraints>> /\ outcome' = "dropped"
    BY <1>2, Zenon DEF EraseColumn
  <2>2. AllNull \in [Values \cup {Null} -> Values \cup {Null}]
    BY Zenon DEF AllNull
  <2>3. /\ rows' \in Seq(Row)
        /\ \A d \in columns \ {c} : ValuesOf(rows', d) \subseteq ValuesOf(rows, d)
    <3>1. CASE columns = {c}
      BY <2>1, <3>1
    <3>2. CASE columns # {c}
      BY <2>1, <2>2, <3>2, ColumnwiseFacts, Zenon
    <3> QED
      BY <3>1, <3>2, Zenon
  <2> QED
    BY <2>1, <2>3, FreshSound, Zenon
<1>3. CASE AlterColumn(c)
  <2>1. PICK cast \in [Values \cup {Null} -> Values \cup {Null}] : rows' = Columnwise(c, cast)
    BY <1>3, Zenon DEF AlterColumn
  <2>2. Fresh(c) /\ UNCHANGED <<columns, sortingColumns, constraints>> /\ outcome' = "ok"
    BY <1>3, Zenon DEF AlterColumn
  <2>3. /\ rows' \in Seq(Row)
        /\ \A d \in columns \ {c} : ValuesOf(rows', d) \subseteq ValuesOf(rows, d)
    BY <2>1, ColumnwiseFacts, Zenon
  <2> QED
    BY <2>2, <2>3, FreshSound, Zenon
<1> QED
  BY <1>1, <1>2, <1>3, Zenon

\* RENAME COLUMN moves the values of one column, and touches no other.
LEMMA RenamedRows ==
    ASSUME TableTyped, NEW from \in Columns, NEW to \in Columns, RenameColumn(from, to)
    PROVE  /\ rows' \in Seq(Row) /\ DOMAIN rows' = DOMAIN rows
           /\ \A i \in DOMAIN rows :
                rows'[i][to] = rows[i][from] /\ \A d \in Columns \ {from, to} : rows'[i][d] = rows[i][d]
<1>1. from # to /\ rows \in [1 .. Len(rows) -> Row] /\ Len(rows) \in Nat
  BY DEF TableTyped, RenameColumn
<1>2. \A r \in Row : /\ Moved(r, from, to, Null) \in Row
                     /\ Moved(r, from, to, Null)[to] = r[from]
                     /\ \A d \in Columns \ {from, to} : Moved(r, from, to, Null)[d] = r[d]
  BY <1>1, Zenon DEF Moved, Row
<1>3. rows' = [i \in 1 .. Len(rows) |-> Moved(rows[i], from, to, Null)]
  BY <1>1, Zenon DEF RenameColumn
<1>4. \A i \in 1 .. Len(rows) : rows[i] \in Row /\ rows'[i] = Moved(rows[i], from, to, Null)
  BY <1>1, <1>3, Zenon
<1>5. rows' \in [1 .. Len(rows) -> Row]
  BY <1>2, <1>3, <1>4, Zenon
<1> QED
  BY <1>1, <1>2, <1>4, <1>5

\* RENAME COLUMN, the case of a name that is taken included.
LEMMA RenameStepsSound ==
    ASSUME NotNullInv, NEW from \in Columns, NEW to \in Columns,
           RenameColumn(from, to) \/ RenameColumnOntoOther(from, to)
    PROVE  NotNullInv'
<1> USE DEF NotNullInv, TableTyped
<1>1. CASE RenameColumn(from, to)
  <2>1. from # to /\ from \in columns /\ to \notin columns /\ columns' = (columns \ {from}) \cup {to}
    BY <1>1, Zenon DEF RenameColumn
  <2>2. /\ isNullable' \in [Columns -> BOOLEAN] /\ isUnique' \in [Columns -> BOOLEAN]
        /\ uniqueHashmap' \in [Columns -> SUBSET Values]
    BY <1>1, Zenon DEF RenameColumn, Moved
  <2>3. /\ isNullable'[from] /\ ~isUnique'[from]
        /\ (isNullable'[to] <=> isNullable[from]) /\ (isUnique'[to] <=> isUnique[from])
        /\ \A d \in Columns \ {from, to} : (isNullable'[d] <=> isNullable[d]) /\ (isUnique'[d] <=> isUnique[d])
    BY <1>1, <2>1, Zenon DEF RenameColumn, Moved
  <2>4. /\ rows' \in Seq(Row)
        /\ ValuesOf(rows', to) = ValuesOf(rows, from)
        /\ \A d \in Columns \ {from, to} : ValuesOf(rows', d) = ValuesOf(rows, d)
    BY <1>1, RenamedRows, SameValues
  <2>5. NotNullHolds' /\ UniqueIsNotNull' /\ AbsentUnflagged'
    BY <2>1, <2>3, <2>4, Zenon DEF NotNullHolds, UniqueIsNotNull, AbsentUnflagged
  <2> QED
    BY <1>1, <2>1, <2>2, <2>4, <2>5, Zenon DEF RenameColumn
<1>2. CASE RenameColumnOntoOther(from, to)
  <2>1. /\ Fresh(from) /\ columns' = columns \ {from} /\ rows' = Columnwise(from, AllNull)
        /\ UNCHANGED <<sortingColumns, constraints>> /\ outcome' = "ok"
    BY <1>2, Zenon DEF RenameColumnOntoOther
  <2>2. AllNull \in [Values \cup {Null} -> Values \cup {Null}]
    BY Zenon DEF AllNull
  <2>3. /\ rows' \in Seq(Row)
        /\ \A d \in columns \ {from} : ValuesOf(rows', d) \subseteq ValuesOf(rows, d)
    BY <2>1, <2>2, ColumnwiseFacts, Zenon
  <2> QED
    BY <2>1, <2>3, FreshSound, Zenon
<1> QED
  BY <1>1, <1>2, Zenon


\* Every statement keeps the invariant.
LEMMA NotNullStep ==
    ASSUME NotNullInv, [Next]_vars
    PROVE  NotNullInv'
<1>1. CASE UNCHANGED vars
  BY <1>1, Zenon DEF NotNullInv, TableTyped, NotNullHolds, UniqueIsNotNull, AbsentUnflagged, ValuesOf, vars, flagVars
<1>2. ASSUME NEW batch \in Batches, InsertRefused(batch)
      PROVE  NotNullInv'
  BY <1>2, Zenon DEF InsertRefused, NotNullInv, TableTyped, NotNullHolds, UniqueIsNotNull, AbsentUnflagged, ValuesOf, flagVars
<1>3. ASSUME NEW name \in Names,
             \/ \E type \in ConstraintType, list \in ColumnLists :
                  AddConstraint(name, type, list) \/ AddConstraintThrows(name, type, list)
             \/ DropConstraint(name) \/ DropConstraintThrows(name)
      PROVE  NotNullInv'
  <2>1. FlagsSound' /\ UNCHANGED <<columns, rows>>
    BY <1>3, ConstraintSteps, FlagsStaySound, Zenon DEF NotNullInv, FlagStep
  <2> QED
    BY <1>3, <2>1, ConstraintSteps, Zenon DEF NotNullInv, TableTyped, FlagsSound
<1>4. CASE ChangeTableBlockSize
  BY <1>4, Zenon DEF ChangeTableBlockSize, Forgotten, NotNullInv, TableTyped, NotNullHolds, UniqueIsNotNull, AbsentUnflagged, ValuesOf
<1>5. CASE Restart
  <2>1. \A c \in Columns : isUnique[c] => ValuesOf(rows, c) \subseteq Values
    BY DEF NotNullInv, TableTyped, NotNullHolds, UniqueIsNotNull, AbsentUnflagged, ValuesOf, Row
  <2>2. uniqueHashmap' \in [Columns -> SUBSET Values]
    BY <1>5, <2>1, Zenon DEF Restart
  <2> QED
    BY <1>5, <2>2, Zenon DEF Restart, Forgotten, NotNullInv, TableTyped, NotNullHolds, UniqueIsNotNull, AbsentUnflagged, ValuesOf
<1> QED
  BY <1>1, <1>2, <1>3, <1>4, <1>5, InsertSound, ColumnStepsSound, RenameStepsSound, Zenon DEF Next

\* An empty table without constraints satisfies the invariant.
LEMMA NotNullInit == Init => NotNullInv
BY DEF Init, Forgotten, NotNullInv, TableTyped, NotNullHolds, UniqueIsNotNull, AbsentUnflagged, ValuesOf

\* The table, its flags and the constraints on record stay of their kinds,
\* and no null gets into uniqueHashmap_.
THEOREM ConstraintTypes == Spec => []TypeOK
<1> DEFINE Known == altered \subseteq {"columns", "block size", "restarted"}
<1>1. Init => NotNullInv /\ Known
  BY NotNullInit, Zenon DEF Init
<1>2. Known /\ [Next]_vars => Known'
  BY Zenon DEF Next, vars, InsertData, InsertRefused, AddConstraint, AddConstraintThrows, DropConstraint, DropConstraintThrows,
         AddColumn, EraseColumn, AlterColumn, RenameColumn, RenameColumnOntoOther, ChangeTableBlockSize, Restart
<1>3. NotNullInv /\ [Next]_vars => NotNullInv'
  BY NotNullStep, Zenon
<1>4. NotNullInv /\ Known => TypeOK
  BY Zenon DEF NotNullInv, TypeOK
<1> HIDE DEF Known
<1> QED
  BY <1>1, <1>2, <1>3, <1>4, PTL DEF Spec

\* A column that is NOT NULL never holds a null.
THEOREM NotNullEnforced == Spec => []NotNullHolds
<1>1. NotNullInv => NotNullHolds
  BY Zenon DEF NotNullInv
<1> QED
  BY <1>1, NotNullInit, NotNullStep, PTL DEF Spec

\* A column that is UNIQUE is NOT NULL.
THEOREM UniqueImpliesNotNull == Spec => []UniqueIsNotNull
<1>1. NotNullInv => UniqueIsNotNull
  BY Zenon DEF NotNullInv
<1> QED
  BY <1>1, NotNullInit, NotNullStep, PTL DEF Spec


-----------------------------------------------------------------------------
\* Appending the rows of a batch: each row of the result is one of the table,
\* in its place, or one of the batch, behind the table.
LEMMA AppendFacts ==
    ASSUME TableTyped, NEW batch \in Batches
    PROVE  /\ \A i \in DOMAIN rows : i \in DOMAIN (rows \o batch) /\ (rows \o batch)[i] = rows[i]
           /\ \A i \in DOMAIN batch :
                i + Len(rows) \in DOMAIN (rows \o batch) /\ (rows \o batch)[i + Len(rows)] = batch[i]
           /\ \A i \in DOMAIN (rows \o batch) \ DOMAIN rows :
                i - Len(rows) \in DOMAIN batch /\ (rows \o batch)[i] = batch[i - Len(rows)]
           /\ Len(rows) \in Nat /\ DOMAIN (rows \o batch) \subseteq Nat /\ DOMAIN batch \subseteq Nat
<1>1. PICK n \in 1 .. MaxBatch : batch \in [1 .. n -> Row]
  BY Zenon DEF Batches
<1>2. n \in Nat /\ batch \in Seq(Row) /\ rows \in Seq(Row)
  BY <1>1, ConstraintAssumption DEF TableTyped
<1> QED
  BY <1>2

\* The values of the rows appended join those of the table.
LEMMA AppendedValues ==
    ASSUME TableTyped, NEW batch \in Batches, NEW c \in Columns
    PROVE  ValuesOf(rows \o batch, c) = ValuesOf(rows, c) \cup ValuesOf(batch, c)
<1> DEFINE all == rows \o batch
<1>1. /\ \A i \in DOMAIN rows : i \in DOMAIN all /\ all[i] = rows[i]
      /\ \A i \in DOMAIN batch : \E k \in DOMAIN all : all[k] = batch[i]
      /\ \A i \in DOMAIN all \ DOMAIN rows : \E k \in DOMAIN batch : all[i] = batch[k]
  BY AppendFacts, Zenon
<1> HIDE DEF all
<1>2. ValuesOf(all, c) = ValuesOf(rows, c) \cup ValuesOf(batch, c)
  BY <1>1 DEF ValuesOf
<1> QED
  BY <1>2, Zenon DEF all

\* INSERT INTO compares a batch with uniqueHashmap_ and with itself: that is
\* enough for the table to stay free of duplicates, and exact again.
LEMMA InsertUnique ==
    ASSUME UniqueInv, NEW batch \in Batches, InsertData(batch)
    PROVE  NoDuplicates' /\ HashmapCurrent'
<1> USE DEF UniqueInv, NotNullInv
<1>1. UNCHANGED <<columns, isUnique>> /\ rows' = rows \o batch /\ columns \subseteq Columns
  BY Zenon DEF InsertData, TableTyped
<1>2. ASSUME NEW c \in columns, isUnique[c] PROVE ~HasDuplicate(c)'
  <2> SUFFICES ASSUME NEW i \in DOMAIN rows', NEW j \in DOMAIN rows', i # j, rows'[i][c] = rows'[j][c]
               PROVE  FALSE
    BY Zenon DEF HasDuplicate
  <2>1. uniqueHashmap[c] = ValuesOf(rows, c) /\ ~HasDuplicate(c)
    BY <1>2, Zenon DEF HashmapCurrent, NoDuplicates
  <2>2. \A k \in DOMAIN batch :
            /\ batch[k][c] \notin uniqueHashmap[c]
            /\ \A l \in 1 .. (k - 1) : batch[l][c] # batch[k][c]
    BY <1>2, Zenon DEF InsertData, CheckUniqueConstraintInData
  <2>3. CASE i \in DOMAIN rows /\ j \in DOMAIN rows
    BY <1>1, <2>1, <2>3, AppendFacts DEF HasDuplicate
  <2>4. CASE i \in DOMAIN rows /\ j \notin DOMAIN rows
    <3>1. rows'[i][c] \in ValuesOf(rows, c)
      BY <1>1, <2>4, AppendFacts, Zenon DEF ValuesOf
    <3>2. j - Len(rows) \in DOMAIN batch /\ rows'[j] = batch[j - Len(rows)]
      BY <1>1, <2>4, AppendFacts, Zenon
    <3> QED
      BY <2>1, <2>2, <3>1, <3>2, Zenon
  <2>5. CASE i \notin DOMAIN rows /\ j \in DOMAIN rows
    <3>1. rows'[j][c] \in ValuesOf(rows, c)
      BY <1>1, <2>5, AppendFacts, Zenon DEF ValuesOf
    <3>2. i - Len(rows) \in DOMAIN batch /\ rows'[i] = batch[i - Len(rows)]
      BY <1>1, <2>5, AppendFacts, Zenon
    <3> QED
      BY <2>1, <2>2, <3>1, <3>2, Zenon
  <2>6. CASE i \notin DOMAIN rows /\ j \notin DOMAIN rows
    <3> DEFINE k == i - Len(rows)
               l == j - Len(rows)
    <3>1. k \in DOMAIN batch /\ l \in DOMAIN batch /\ rows'[i] = batch[k] /\ rows'[j] = batch[l]
      BY <1>1, <2>6, AppendFacts, Zenon
    <3>2. k # l /\ k \in Nat /\ l \in Nat
      BY <1>1, <3>1, AppendFacts
    <3>3. \A m \in DOMAIN batch : m >= 1
      <4>1. PICK n \in 1 .. MaxBatch : batch \in [1 .. n -> Row]
        BY Zenon DEF Batches
      <4> QED
        BY <4>1
    <3> HIDE DEF k, l
    <3>4. k \in 1 .. (l - 1) \/ l \in 1 .. (k - 1)
      BY <3>1, <3>2, <3>3
    <3> QED
      BY <2>2, <3>1, <3>4, Zenon
  <2> QED
    BY <2>3, <2>4, <2>5, <2>6, Zenon
<1>3. ASSUME NEW c \in columns, isUnique[c] PROVE uniqueHashmap'[c] = ValuesOf(rows', c)
  <2>1. uniqueHashmap'[c] = uniqueHashmap[c] \cup ValuesOf(batch, c)
    BY <1>1, <1>3, Zenon DEF InsertData
  <2>2. uniqueHashmap[c] = ValuesOf(rows, c)
    BY <1>3, Zenon DEF HashmapCurrent
  <2> QED
    BY <1>1, <2>1, <2>2, AppendedValues, Zenon
<1>4. NoDuplicates'
  BY <1>1, <1>2, Zenon DEF NoDuplicates
<1>5. HashmapCurrent'
  BY <1>1, <1>3, Zenon DEF HashmapCurrent
<1> QED
  BY <1>4, <1>5, Zenon


\* Setting UNIQUE finds no duplicate and collects the values; taking it back
\* leaves nothing to be exact.
LEMMA FlagsStayUnique ==
    ASSUME UniqueInv, NEW type \in ConstraintType, NEW on \in SUBSET Columns, NEW off \in SUBSET Columns,
           FlagStep(type, on, off)
    PROVE  NoDuplicates' /\ HashmapCurrent'
<1> USE DEF UniqueInv, NotNullInv
<1>1. UNCHANGED <<columns, rows>> /\ columns \subseteq Columns
  BY Zenon DEF FlagStep, TableTyped
<1>2. ASSUME NEW c \in columns, isUnique'[c]
      PROVE  ~HasDuplicate(c) /\ uniqueHashmap'[c] = ValuesOf(rows, c)
  <2>1. CASE type = "UNIQUE" /\ c \in on
    <3>1. ~HasDuplicate(c)
      BY <2>1, Zenon DEF FlagStep, CannotSet
    <3>2. uniqueHashmap'[c] = ValuesOf(rows, c)
      BY <1>1, <2>1, Zenon DEF FlagStep, SetFlags, CollectedValues
    <3> QED
      BY <3>1, <3>2, Zenon
  <2>2. CASE ~(type = "UNIQUE" /\ c \in on)
    <3>1. isUnique[c] /\ ~(type = "UNIQUE" /\ c \in off)
      BY <1>1, <1>2, <2>2, Zenon DEF FlagStep, SetFlags
    <3>2. uniqueHashmap'[c] = uniqueHashmap[c]
      BY <1>1, <2>2, <3>1, Zenon DEF FlagStep, SetFlags
    <3> QED
      BY <3>1, <3>2, Zenon DEF NoDuplicates, HashmapCurrent
  <2> QED
    BY <2>1, <2>2, Zenon
<1>3. NoDuplicates'
  BY <1>1, <1>2 DEF NoDuplicates, HasDuplicate
<1>4. HashmapCurrent'
  BY <1>1, <1>2, Zenon DEF HashmapCurrent
<1> QED
  BY <1>3, <1>4, Zenon

\* A column whose values, flag and hashmap were another's before the step.
LEMMA MovedUnique ==
    ASSUME UniqueInv, NEW c, NEW d \in columns, isUnique[d],
           uniqueHashmap'[c] = uniqueHashmap[d],
           DOMAIN rows' = DOMAIN rows, \A i \in DOMAIN rows : rows'[i][c] = rows[i][d]
    PROVE  ~HasDuplicate(c)' /\ uniqueHashmap'[c] = ValuesOf(rows', c)
<1>1. ~HasDuplicate(d) /\ uniqueHashmap[d] = ValuesOf(rows, d)
  BY Zenon DEF UniqueInv, NoDuplicates, HashmapCurrent
<1>2. ValuesOf(rows', c) = ValuesOf(rows, d)
  BY SameValues
<1>3. ~HasDuplicate(c)'
  BY <1>1 DEF HasDuplicate
<1> QED
  BY <1>1, <1>2, <1>3, Zenon

\* A step that makes c a new column and keeps the others.
LEMMA FreshUnique ==
    ASSUME UniqueInv, NEW c \in Columns, Fresh(c),
           columns' \ {c} \subseteq columns,
           columns' \ {c} # {} =>
               /\ DOMAIN rows' = DOMAIN rows
               /\ \A d \in Columns \ {c} : \A i \in DOMAIN rows : rows'[i][d] = rows[i][d]
    PROVE  NoDuplicates' /\ HashmapCurrent'
<1>1. columns \subseteq Columns /\ isUnique \in [Columns -> BOOLEAN] /\ uniqueHashmap \in [Columns -> SUBSET Values]
  BY Zenon DEF UniqueInv, NotNullInv, TableTyped
<1>2. ASSUME NEW d \in columns', isUnique'[d]
      PROVE  ~HasDuplicate(d)' /\ uniqueHashmap'[d] = ValuesOf(rows', d)
  <2>1. d # c /\ d \in columns /\ isUnique[d] /\ uniqueHashmap'[d] = uniqueHashmap[d]
    BY <1>1, <1>2, Zenon DEF Fresh
  <2> QED
    BY <1>1, <2>1, MovedUnique, Zenon
<1> QED
  BY <1>2, Zenon DEF NoDuplicates, HashmapCurrent


\* Every statement but ALTER BLOCK SIZE keeps UNIQUE.
LEMMA UniqueStep ==
    ASSUME ~ChangeTableBlockSize, UniqueInv, [Next]_vars
    PROVE  UniqueInv'
<1>1. NotNullInv' /\ NotNullInv /\ TableTyped
  BY NotNullStep, Zenon DEF UniqueInv, NotNullInv
<1> SUFFICES NoDuplicates' /\ HashmapCurrent'
  BY <1>1, Zenon DEF UniqueInv
<1>2. CASE UNCHANGED vars
  BY <1>2 DEF UniqueInv, NoDuplicates, HashmapCurrent, HasDuplicate, ValuesOf, vars, flagVars
<1>3. ASSUME NEW batch \in Batches, InsertRefused(batch)
      PROVE  NoDuplicates' /\ HashmapCurrent'
  BY <1>3 DEF InsertRefused, UniqueInv, NoDuplicates, HashmapCurrent, HasDuplicate, ValuesOf, flagVars
<1>4. ASSUME NEW name \in Names,
             \/ \E type \in ConstraintType, list \in ColumnLists :
                  AddConstraint(name, type, list) \/ AddConstraintThrows(name, type, list)
             \/ DropConstraint(name) \/ DropConstraintThrows(name)
      PROVE  NoDuplicates' /\ HashmapCurrent'
  BY <1>1, <1>4, ConstraintSteps, FlagsStayUnique, Zenon
<1>5. ASSUME NEW c \in Columns, AddColumn(c)
      PROVE  NoDuplicates' /\ HashmapCurrent'
  BY <1>5, FreshUnique, Zenon DEF AddColumn
<1>6. ASSUME NEW c \in Columns
      PROVE  /\ DOMAIN Columnwise(c, AllNull) = DOMAIN rows
             /\ \A d \in Columns \ {c} : \A i \in DOMAIN rows : Columnwise(c, AllNull)[i][d] = rows[i][d]
  <2>1. AllNull \in [Values \cup {Null} -> Values \cup {Null}]
    BY Zenon DEF AllNull
  <2> QED
    BY <1>1, <2>1, ColumnwiseFacts, Zenon
<1>7. ASSUME NEW c \in Columns, EraseColumn(c)
      PROVE  NoDuplicates' /\ HashmapCurrent'
  <2>1. Fresh(c) /\ columns' = columns \ {c}
    BY <1>7, Zenon DEF EraseColumn
  <2>2. columns' # {} => rows' = Columnwise(c, AllNull)
    BY <1>7, <2>1, Zenon DEF EraseColumn
  <2>3. ASSUME columns' # {}
        PROVE  /\ DOMAIN rows' = DOMAIN rows
               /\ \A d \in Columns \ {c} : \A i \in DOMAIN rows : rows'[i][d] = rows[i][d]
    BY <1>6, <2>2, <2>3
  <2> QED
    BY <2>1, <2>3, FreshUnique, Zenon
<1>8. ASSUME NEW c \in Columns, AlterColumn(c)
      PROVE  NoDuplicates' /\ HashmapCurrent'
  <2>1. PICK cast \in [Values \cup {Null} -> Values \cup {Null}] : rows' = Columnwise(c, cast)
    BY <1>8, Zenon DEF AlterColumn
  <2>2. Fresh(c) /\ columns' = columns
    BY <1>8, Zenon DEF AlterColumn
  <2>3. /\ DOMAIN rows' = DOMAIN rows
        /\ \A d \in Columns \ {c} : \A i \in DOMAIN rows : rows'[i][d] = rows[i][d]
    <3>1. /\ DOMAIN Columnwise(c, cast) = DOMAIN rows
          /\ \A d \in Columns \ {c} : \A i \in DOMAIN rows : Columnwise(c, cast)[i][d] = rows[i][d]
      BY <1>1, ColumnwiseFacts, Zenon
    <3> QED
      BY <2>1, <3>1, Zenon
  <2> QED
    BY <2>2, <2>3, FreshUnique, Zenon
<1>9. ASSUME NEW from \in Columns, NEW to \in Columns, RenameColumn(from, to)
      PROVE  NoDuplicates' /\ HashmapCurrent'
  <2>1. from # to /\ from \in columns /\ columns' = (columns \ {from}) \cup {to} /\ columns \subseteq Columns
    BY <1>1, <1>9, Zenon DEF RenameColumn, TableTyped
  <2>2. /\ (isUnique'[to] <=> isUnique[from]) /\ uniqueHashmap'[to] = uniqueHashmap[from]
        /\ \A d \in Columns \ {from, to} : (isUnique'[d] <=> isUnique[d]) /\ uniqueHashmap'[d] = uniqueHashmap[d]
    BY <1>1, <1>9, <2>1, Zenon DEF RenameColumn, Moved, TableTyped
  <2>3. ASSUME NEW c \in columns', isUnique'[c]
        PROVE  ~HasDuplicate(c)' /\ uniqueHashmap'[c] = ValuesOf(rows', c)
    <3>1. CASE c = to
      BY <1>1, <1>9, <2>1, <2>2, <2>3, <3>1, RenamedRows, MovedUnique
    <3>2. CASE c # to
      <4>1. c \in columns /\ c \in Columns \ {from, to} /\ isUnique[c] /\ uniqueHashmap'[c] = uniqueHashmap[c]
        BY <2>1, <2>2, <2>3, <3>2, Zenon
      <4>2. DOMAIN rows' = DOMAIN rows /\ \A i \in DOMAIN rows : rows'[i][c] = rows[i][c]
        BY <1>1, <1>9, <4>1, RenamedRows
      <4> QED
        BY <4>1, <4>2, MovedUnique, Zenon
    <3> QED
      BY <3>1, <3>2, Zenon
  <2> QED
    BY <2>3, Zenon DEF NoDuplicates, HashmapCurrent
<1>10. ASSUME NEW from \in Columns, NEW to \in Columns, RenameColumnOntoOther(from, to)
       PROVE  NoDuplicates' /\ HashmapCurrent'
  <2>1. Fresh(from) /\ columns' = columns \ {from} /\ rows' = Columnwise(from, AllNull)
    BY <1>10, Zenon DEF RenameColumnOntoOther
  <2>2. /\ DOMAIN rows' = DOMAIN rows
        /\ \A d \in Columns \ {from} : \A i \in DOMAIN rows : rows'[i][d] = rows[i][d]
    BY <1>6, <2>1, Zenon
  <2> QED
    BY <2>1, <2>2, FreshUnique, Zenon
<1>11. CASE Restart
  BY <1>1, <1>11 DEF Restart, UniqueInv, NoDuplicates, HashmapCurrent, HasDuplicate, ValuesOf, TableTyped
<1> QED
  BY <1>2, <1>3, <1>4, <1>5, <1>7, <1>8, <1>9, <1>10, <1>11, InsertUnique, Zenon DEF Next

\* What has been altered stays altered, and ALTER BLOCK SIZE is noted.
LEMMA AlteredGrows ==
    ASSUME [Next]_vars
    PROVE  /\ altered \subseteq altered'
           /\ ChangeTableBlockSize => "block size" \in altered'
BY Zenon DEF Next, vars, InsertData, InsertRefused, AddConstraint, AddConstraintThrows, DropConstraint, DropConstraintThrows,
       AddColumn, EraseColumn, AlterColumn, RenameColumn, RenameColumnOntoOther, ChangeTableBlockSize, Restart

\* The invariant behind UNIQUE, up to the first ALTER BLOCK SIZE.
LEMMA UniqueUntilAltered == Spec => [](NotNullInv /\ ("block size" \notin altered => UniqueInv))
<1> DEFINE Inv == NotNullInv /\ ("block size" \notin altered => UniqueInv)
<1>1. Init => Inv
  BY NotNullInit, Zenon DEF Init, UniqueInv, NoDuplicates, HashmapCurrent
<1>2. Inv /\ [Next]_vars => Inv'
  BY NotNullStep, UniqueStep, AlteredGrows, Zenon
<1> QED
  BY <1>1, <1>2, PTL DEF Spec

\* Until a block size is altered a UNIQUE column never holds a value twice.
THEOREM UniqueEnforced == Spec => []UniqueHolds
<1>1. NotNullInv /\ ("block size" \notin altered => UniqueInv) => UniqueHolds
  BY Zenon DEF UniqueInv, UniqueHolds
<1> QED
  BY <1>1, UniqueUntilAltered, PTL

\* Until a block size is altered uniqueHashmap_ is what the column holds.
THEOREM HashmapStaysExact == Spec => []HashmapExact
<1>1. NotNullInv /\ ("block size" \notin altered => UniqueInv) => HashmapExact
  BY Zenon DEF UniqueInv, HashmapExact
<1> QED
  BY <1>1, UniqueUntilAltered, PTL

-----------------------------------------------------------------------------
(***************************************************************************)
(* The constraints on record and the flags.                                *)
(***************************************************************************)

\* Nothing is collected of a column that is not unique.
HashmapSpare == \A c \in Columns : ~isUnique[c] => uniqueHashmap[c] = {}

\* Constraints on record are enforced, and no column has two of one type:
\* dropping one would take the other's flag with it.
RecordsEnforced ==
    \A name \in Recorded : Listed(constraints[name].list) \subseteq Constrained(constraints[name].type)

RecordsDisjoint ==
    \A m, n \in Recorded :
        m # n /\ constraints[m].type = constraints[n].type =>
            Listed(constraints[m].list) \cap Listed(constraints[n].list) = {}

RecordsSound ==
    /\ "columns" \notin altered => RecordsEnforced /\ RecordsDisjoint
    /\ FlagsOnRecord

RecordInv == NotNullInv /\ HashmapSpare /\ RecordsSound

\* A loop over a list that meets none of the further columns stops where it did.
LEMMA BeforeSame ==
    ASSUME NEW list \in ColumnLists, NEW bad, NEW more, Listed(list) \cap more = {}
    PROVE  Before(list, bad \cup more) = Before(list, bad)
<1>0. \A j \in DOMAIN list : \A k \in 1 .. j : k \in DOMAIN list
  <2>1. PICK n \in 1 .. MaxListed : list \in [1 .. n -> Columns]
    BY Zenon DEF ColumnLists
  <2> QED
    BY <2>1, ConstraintAssumption
<1>1. \A i \in DOMAIN list : list[i] \in Listed(list)
  BY Zenon DEF Listed, Before
<1>2. \A i \in DOMAIN list : list[i] \notin more
  BY <1>1, Zenon
<1>3. \A j \in DOMAIN list : (\A k \in 1 .. j : list[k] \notin bad \cup more) <=> (\A k \in 1 .. j : list[k] \notin bad)
  BY <1>0, <1>2, Zenon
<1>4. {j \in DOMAIN list : \A k \in 1 .. j : list[k] \notin bad \cup more} = {j \in DOMAIN list : \A k \in 1 .. j : list[k] \notin bad}
  BY <1>3, Zenon
<1> QED
  BY <1>4, Zenon DEF Before

\* What a loop gets through is listed.
LEMMA BeforeListed ==
    ASSUME NEW list, NEW bad
    PROVE  Before(list, bad) \subseteq Listed(list)
BY Zenon DEF Before, Listed

\* SetFlags changes which columns have a constraint of its type, and no other.
LEMMA SetFlagsConstrained ==
    ASSUME TableTyped, NEW type \in ConstraintType, NEW on \in SUBSET columns, NEW off \in SUBSET Columns,
           SetFlags(type, on, off), UNCHANGED columns, on \cap off = {}
    PROVE  /\ Constrained(type)' = (Constrained(type) \cup on) \ off
           /\ \A other \in ConstraintType \ {type} : Constrained(other)' = Constrained(other)
<1> DEFINE Is(t, c) == \/ t = "NOT NULL" /\ ~isNullable[c]
                       \/ t = "UNIQUE" /\ isUnique[c]
                       \/ t = "INDEX" /\ c \in sortingColumns
           Becomes(t, c) == \/ t = "NOT NULL" /\ ~isNullable'[c]
                            \/ t = "UNIQUE" /\ isUnique'[c]
                            \/ t = "INDEX" /\ c \in sortingColumns'
<1>1. \A t \in ConstraintType : Constrained(t) = {c \in columns : Is(t, c)} /\ Constrained(t)' = {c \in columns : Becomes(t, c)}
  BY Zenon DEF Constrained
<1>2. ASSUME NEW c \in columns
      PROVE  /\ Becomes(type, c) <=> (Is(type, c) \/ c \in on) /\ c \notin off
             /\ \A other \in ConstraintType \ {type} : Becomes(other, c) <=> Is(other, c)
  <2>1. c \in Columns
    BY Zenon DEF TableTyped
  <2>2. CASE type = "NOT NULL"
    BY <2>1, <2>2, Zenon DEF SetFlags, ConstraintType
  <2>3. CASE type = "UNIQUE"
    BY <2>1, <2>3, Zenon DEF SetFlags, ConstraintType
  <2>4. CASE type = "INDEX"
    BY <2>1, <2>4, Zenon DEF SetFlags, ConstraintType
  <2> QED
    BY <2>2, <2>3, <2>4, Zenon DEF ConstraintType
<1> HIDE DEF Is, Becomes
<1>3. Constrained(type)' = (Constrained(type) \cup on) \ off
  BY <1>1, <1>2, Zenon
<1>4. \A other \in ConstraintType \ {type} : Constrained(other)' = Constrained(other)
  BY <1>1, <1>2, Zenon
<1> QED
  BY <1>3, <1>4, Zenon

\* Setting nothing and taking back what is not set changes nothing.
LEMMA NothingSet ==
    ASSUME TableTyped, HashmapSpare, NEW type \in ConstraintType, NEW off \in SUBSET columns,
           off \cap Constrained(type) = {}, SetFlags(type, {}, off)
    PROVE  UNCHANGED flagVars
<1>1. \A c \in off : c \in Columns /\ (type = "NOT NULL" => isNullable[c]) /\ (type = "UNIQUE" => ~isUnique[c])
                     /\ (type = "INDEX" => c \notin sortingColumns)
  BY Zenon DEF Constrained, TableTyped
<1>2. isNullable' = isNullable
  BY <1>1, Zenon DEF SetFlags, TableTyped
<1>3. isUnique' = isUnique
  BY <1>1, Zenon DEF SetFlags, TableTyped
<1>4. uniqueHashmap' = uniqueHashmap
  BY <1>1, Zenon DEF SetFlags, TableTyped, HashmapSpare
<1>5. sortingColumns' = sortingColumns
  BY <1>1, Zenon DEF SetFlags, TableTyped
<1> QED
  BY <1>2, <1>3, <1>4, <1>5, Zenon DEF flagVars

\* Setting what is set, of NOT NULL, changes nothing.
LEMMA NothingUnset ==
    ASSUME TableTyped, NEW on \in SUBSET Constrained("NOT NULL"), SetFlags("NOT NULL", on, {})
    PROVE  UNCHANGED flagVars
<1>1. \A c \in on : ~isNullable[c]
  BY Zenon DEF Constrained
<1>2. isNullable' = isNullable
  BY <1>1, Zenon DEF SetFlags, TableTyped
<1>3. isUnique' = isUnique /\ uniqueHashmap' = uniqueHashmap /\ sortingColumns' = sortingColumns
  BY Zenon DEF SetFlags, TableTyped
<1> QED
  BY <1>2, <1>3, Zenon DEF flagVars

\* ADD of a constraint that throws takes everything back: a column on which
\* that would throw has been refused by the listener.
LEMMA AddThrowsChangesNothing ==
    ASSUME RecordInv, NEW name, NEW type \in ConstraintType, NEW list \in ColumnLists,
           AddConstraintThrows(name, type, list)
    PROVE  UNCHANGED flagVars
<1>1. TableTyped /\ UniqueIsNotNull /\ HashmapSpare
  BY Zenon DEF RecordInv, NotNullInv
<1>2. Listed(list) \subseteq columns /\ Listed(list) \cap Constrained(type) = {}
  BY Zenon DEF AddConstraintThrows, ListenerAccepts
<1>3. Listed(list) \cap CannotUnset(type) = {}
  BY <1>1, <1>2, Zenon DEF CannotUnset, UniqueIsNotNull, Constrained
<1> DEFINE off == Before(list, CannotSet(type))
<1>4. TakenBack(type, list) = off
  BY <1>3, BeforeSame, Zenon DEF TakenBack
<1>5. off \ off = {} /\ off \subseteq Listed(list)
  BY BeforeListed, Zenon
<1>6. SetFlags(type, {}, off)
  BY <1>4, <1>5, Zenon DEF AddConstraintThrows
<1> HIDE DEF off
<1>7. off \in SUBSET columns /\ off \cap Constrained(type) = {}
  BY <1>2, <1>5, Zenon
<1> QED
  BY <1>1, <1>6, <1>7, NothingSet, Zenon

\* DROP of a constraint that throws restores everything: the only thing it
\* stumbles over is a unique column, and no column has got a null meanwhile.
LEMMA DropThrowsChangesNothing ==
    ASSUME RecordInv, "columns" \notin altered, NEW name \in Names, DropConstraintThrows(name)
    PROVE  UNCHANGED flagVars
<1> DEFINE type == constraints[name].type
           list == constraints[name].list
<1>1. TableTyped /\ NotNullHolds /\ RecordsEnforced
  BY Zenon DEF RecordInv, RecordsSound, NotNullInv
<1>2. name \in Recorded /\ ~Completes(list, CannotUnset(type))
      /\ SetFlags(type, Restored(type, list), Before(list, CannotUnset(type)) \ Restored(type, list))
  BY Zenon DEF DropConstraintThrows
<1>3. type \in ConstraintType /\ list \in ColumnLists /\ Listed(list) \subseteq Constrained(type)
  BY <1>1, <1>2, RecordedFacts, Zenon DEF RecordsEnforced
<1> HIDE DEF type, list
<1>4. type = "NOT NULL"
  BY <1>2, <1>3, Zenon DEF Completes, CannotUnset, Constrained, ConstraintType
<1>5. Listed(list) \cap CannotSet(type) = {}
  BY <1>1, <1>3, <1>4, Zenon DEF CannotSet, Constrained, NotNullHolds, HasNull
<1> DEFINE on == Before(list, CannotUnset(type))
<1>6. Restored(type, list) = on
  BY <1>3, <1>5, BeforeSame, Zenon DEF Restored
<1>7. on \ on = {} /\ on \subseteq Listed(list)
  BY BeforeListed, Zenon
<1>8. SetFlags("NOT NULL", on, {})
  BY <1>2, <1>4, <1>6, <1>7, Zenon
<1> HIDE DEF on
<1> QED
  BY <1>1, <1>3, <1>4, <1>7, <1>8, NothingUnset, Zenon

\* Every statement empties the hashmap of a column that is not unique.
LEMMA SpareStep ==
    ASSUME TableTyped, HashmapSpare, [Next]_vars
    PROVE  HashmapSpare'
<1> USE DEF TableTyped
<1>1. ASSUME NEW type, NEW on, NEW off, SetFlags(type, on, off) PROVE HashmapSpare'
  BY <1>1, Zenon DEF SetFlags, HashmapSpare
<1>2. ASSUME NEW c \in Columns, Fresh(c) PROVE HashmapSpare'
  BY <1>2, Zenon DEF Fresh, HashmapSpare
<1>3. ASSUME NEW batch \in Batches, InsertData(batch) \/ InsertRefused(batch) PROVE HashmapSpare'
  BY <1>3, Zenon DEF InsertData, InsertRefused, HashmapSpare, flagVars
<1>4. ASSUME NEW name \in Names, NEW type \in ConstraintType, NEW list \in ColumnLists,
             AddConstraint(name, type, list) \/ AddConstraintThrows(name, type, list)
      PROVE  HashmapSpare'
  BY <1>1, <1>4, Zenon DEF AddConstraint, AddConstraintThrows
<1>5. ASSUME NEW name \in Names, DropConstraint(name) \/ DropConstraintThrows(name) PROVE HashmapSpare'
  BY <1>1, <1>5, Zenon DEF DropConstraint, DropConstraintThrows
<1>6. ASSUME NEW c \in Columns, AddColumn(c) \/ EraseColumn(c) \/ AlterColumn(c) PROVE HashmapSpare'
  BY <1>2, <1>6, Zenon DEF AddColumn, EraseColumn, AlterColumn
<1>7. ASSUME NEW from \in Columns, NEW to \in Columns, RenameColumn(from, to) PROVE HashmapSpare'
  BY <1>7, Zenon DEF RenameColumn, Moved, HashmapSpare
<1>8. ASSUME NEW from \in Columns, NEW to \in Columns, RenameColumnOntoOther(from, to) PROVE HashmapSpare'
  BY <1>2, <1>8, Zenon DEF RenameColumnOntoOther
<1>9. CASE ChangeTableBlockSize \/ Restart
  BY <1>9, Zenon DEF ChangeTableBlockSize, Restart, HashmapSpare
<1>10. CASE UNCHANGED vars
  BY <1>10, Zenon DEF vars, flagVars, HashmapSpare
<1> QED
  BY <1>3, <1>4, <1>5, <1>6, <1>7, <1>8, <1>9, <1>10, Zenon DEF Next

\* A statement that leaves flags and record alone.
LEMMA RecordsUntouched ==
    ASSUME RecordsSound, UNCHANGED <<columns, isNullable, isUnique, sortingColumns, constraints, altered>>
    PROVE  RecordsSound'
<1>1. \A type : Constrained(type)' = Constrained(type)
  BY Zenon DEF Constrained
<1>2. Recorded' = Recorded
  BY Zenon DEF Recorded
<1>3. RecordsEnforced => RecordsEnforced'
  BY <1>1, <1>2, Zenon DEF RecordsEnforced
<1>4. RecordsDisjoint => RecordsDisjoint'
  BY <1>2, Zenon DEF RecordsDisjoint
<1>5. FlagsOnRecord'
  BY <1>1, <1>2, Zenon DEF RecordsSound, FlagsOnRecord
<1> QED
  BY <1>3, <1>4, <1>5, Zenon DEF RecordsSound

\* A constraint that is added is on columns that had none of its type.
LEMMA AddRecords ==
    ASSUME TableTyped, RecordsSound, NEW name \in Names, NEW type \in ConstraintType, NEW list \in ColumnLists,
           AddConstraint(name, type, list)
    PROVE  RecordsSound'
<1>1. /\ name \notin Recorded /\ Listed(list) \subseteq columns /\ Listed(list) \cap Constrained(type) = {}
      /\ SetFlags(type, Listed(list), {}) /\ UNCHANGED <<columns, altered>>
      /\ constraints' = [constraints EXCEPT ![name] = Constraint(type, list)]
  BY Zenon DEF AddConstraint, ListenerAccepts
<1>2. /\ Constrained(type)' = Constrained(type) \cup Listed(list)
      /\ \A other \in ConstraintType \ {type} : Constrained(other)' = Constrained(other)
  <2>1. Listed(list) \cap {} = {} /\ {} \in SUBSET Columns /\ (Constrained(type) \cup Listed(list)) \ {} = Constrained(type) \cup Listed(list)
    BY Zenon
  <2>2. Listed(list) \in SUBSET columns
    BY <1>1, Zenon
  <2> QED
    BY <1>1, <2>1, <2>2, SetFlagsConstrained, Zenon
<1>3. /\ constraints'[name].type = type /\ constraints'[name].list = list /\ constraints'[name] # NoConstraint
      /\ \A other \in Names \ {name} : constraints'[other] = constraints[other]
  BY <1>1, Zenon DEF TableTyped, Constraint, NoConstraint, ConstraintType
<1>4. Recorded' = Recorded \cup {name}
  BY <1>3, Zenon DEF Recorded
<1>5. \A other \in Recorded : other # name /\ constraints'[other] = constraints[other] /\ constraints[other].type \in ConstraintType
  BY <1>1, <1>3, RecordedFacts, Zenon DEF Recorded
<1>6. ASSUME "columns" \notin altered PROVE RecordsEnforced' /\ RecordsDisjoint'
  <2>1. RecordsEnforced /\ RecordsDisjoint
    BY <1>6, Zenon DEF RecordsSound
  <2>2. ASSUME NEW other \in Recorded
        PROVE  /\ (Listed(constraints[other].list) \subseteq Constrained(constraints[other].type))'
               /\ constraints'[other].type = type => Listed(constraints'[other].list) \cap Listed(list) = {}
    <3>1. Listed(constraints[other].list) \subseteq Constrained(constraints[other].type)
      BY <2>1, Zenon DEF RecordsEnforced
    <3>2. CASE constraints[other].type = type
      BY <1>1, <1>2, <1>5, <3>1, <3>2, Zenon
    <3>3. CASE constraints[other].type # type
      BY <1>2, <1>5, <3>1, <3>3, Zenon
    <3> QED
      BY <3>2, <3>3, Zenon
  <2>3. RecordsEnforced'
    <3>1. (Listed(constraints[name].list) \subseteq Constrained(constraints[name].type))'
      BY <1>2, <1>3, Zenon
    <3> QED
      BY <1>4, <2>2, <3>1, Zenon DEF RecordsEnforced
  <2>4. RecordsDisjoint'
    BY <1>3, <1>4, <1>5, <2>1, <2>2 DEF RecordsDisjoint
  <2> QED
    BY <2>3, <2>4, Zenon
<1>7. FlagsOnRecord'
  <2> SUFFICES ASSUME altered = {}, NEW c \in columns, NEW t \in {"NOT NULL", "UNIQUE"}, c \in Constrained(t)'
               PROVE  \E n \in Recorded' : constraints'[n].type = t /\ c \in Listed(constraints'[n].list)
    BY <1>1, Zenon DEF FlagsOnRecord
  <2>1. CASE t = type /\ c \in Listed(list)
    BY <1>3, <1>4, <2>1, Zenon
  <2>2. CASE ~(t = type /\ c \in Listed(list))
    <3>1. c \in Constrained(t)
      BY <1>2, <2>2, Zenon DEF ConstraintType
    <3>2. PICK n \in Recorded : constraints[n].type = t /\ c \in Listed(constraints[n].list)
      BY <3>1, Zenon DEF RecordsSound, FlagsOnRecord
    <3> QED
      BY <1>4, <1>5, <3>2, Zenon
  <2> QED
    BY <2>1, <2>2, Zenon
<1> QED
  BY <1>1, <1>6, <1>7, Zenon DEF RecordsSound

\* A constraint that is dropped takes its own flags with it.
LEMMA DropRecords ==
    ASSUME TableTyped, RecordsSound, NEW name \in Names, DropConstraint(name)
    PROVE  RecordsSound'
<1>1. PICK type \in ConstraintType, list \in ColumnLists : type = constraints[name].type /\ list = constraints[name].list
  BY RecordedFacts, Zenon DEF DropConstraint
<1>2. /\ name \in Recorded /\ SetFlags(type, {}, Listed(list)) /\ UNCHANGED <<columns, altered>>
      /\ constraints' = [constraints EXCEPT ![name] = NoConstraint]
  BY <1>1, Zenon DEF DropConstraint
<1>3. /\ Constrained(type)' = Constrained(type) \ Listed(list)
      /\ \A other \in ConstraintType \ {type} : Constrained(other)' = Constrained(other)
  <2>1. {} \cap Listed(list) = {} /\ {} \in SUBSET columns /\ (Constrained(type) \cup {}) \ Listed(list) = Constrained(type) \ Listed(list)
    BY Zenon
  <2>2. Listed(list) \in SUBSET Columns
    BY BeforeFacts, Zenon
  <2> QED
    BY <1>2, <2>1, <2>2, SetFlagsConstrained, Zenon
<1>4. constraints'[name] = NoConstraint /\ \A other \in Names \ {name} : constraints'[other] = constraints[other]
  BY <1>2, Zenon DEF TableTyped
<1>5. Recorded' = Recorded \ {name}
  BY <1>4, Zenon DEF Recorded
<1>6. \A other \in Recorded' : other \in Recorded \ {name} /\ constraints'[other] = constraints[other] /\ constraints[other].type \in ConstraintType
  BY <1>4, <1>5, RecordedFacts, Zenon DEF Recorded
<1>7. ASSUME "columns" \notin altered PROVE RecordsEnforced' /\ RecordsDisjoint'
  <2>1. RecordsEnforced /\ RecordsDisjoint
    BY <1>7, Zenon DEF RecordsSound
  <2>2. ASSUME NEW other \in Recorded'
        PROVE  (Listed(constraints[other].list) \subseteq Constrained(constraints[other].type))'
    <3>1. Listed(constraints[other].list) \subseteq Constrained(constraints[other].type)
      BY <1>6, <2>1, Zenon DEF RecordsEnforced
    <3>2. CASE constraints[other].type = type
      <4>1. Listed(constraints[other].list) \cap Listed(list) = {}
        BY <1>1, <1>2, <1>6, <2>1, <3>2, Zenon DEF RecordsDisjoint
      <4> QED
        BY <1>3, <1>6, <3>1, <3>2, <4>1, Zenon
    <3>3. CASE constraints[other].type # type
      BY <1>3, <1>6, <3>1, <3>3, Zenon
    <3> QED
      BY <3>2, <3>3, Zenon
  <2>3. RecordsEnforced'
    BY <2>2, Zenon DEF RecordsEnforced
  <2>4. RecordsDisjoint'
    BY <1>6, <2>1, Zenon DEF RecordsDisjoint
  <2> QED
    BY <2>3, <2>4, Zenon
<1>8. FlagsOnRecord'
  <2> SUFFICES ASSUME altered = {}, NEW c \in columns, NEW t \in {"NOT NULL", "UNIQUE"}, c \in Constrained(t)'
               PROVE  \E n \in Recorded' : constraints'[n].type = t /\ c \in Listed(constraints'[n].list)
    BY <1>2, Zenon DEF FlagsOnRecord
  <2>1. c \in Constrained(t) /\ ~(t = type /\ c \in Listed(list))
    BY <1>3, Zenon DEF ConstraintType
  <2>2. PICK n \in Recorded : constraints[n].type = t /\ c \in Listed(constraints[n].list)
    BY <2>1, Zenon DEF RecordsSound, FlagsOnRecord
  <2>3. n # name
    BY <1>1, <2>1, <2>2, Zenon
  <2> QED
    BY <1>5, <1>6, <2>2, <2>3, Zenon
<1> QED
  BY <1>2, <1>7, <1>8, Zenon DEF RecordsSound

LEMMA RecordStep ==
    ASSUME RecordInv, [Next]_vars
    PROVE  RecordInv'
<1>1. TableTyped /\ NotNullInv /\ HashmapSpare /\ RecordsSound
  BY Zenon DEF RecordInv, NotNullInv
<1>2. NotNullInv' /\ HashmapSpare'
  BY <1>1, NotNullStep, SpareStep, Zenon
<1>3. RecordsSound'
  <2>1. ASSUME "columns" \in altered' PROVE RecordsSound'
    BY <2>1, Zenon DEF RecordsSound, FlagsOnRecord
  <2>2. ASSUME UNCHANGED <<columns, flagVars, constraints, altered>> PROVE RecordsSound'
    BY <1>1, <2>2, RecordsUntouched, Zenon DEF flagVars
  <2>3. ASSUME NEW batch \in Batches, InsertData(batch) \/ InsertRefused(batch) PROVE RecordsSound'
    <3>1. UNCHANGED <<columns, isNullable, isUnique, sortingColumns, constraints, altered>>
      BY <2>3, Zenon DEF InsertData, InsertRefused, flagVars
    <3> QED
      BY <1>1, <3>1, RecordsUntouched, Zenon
  <2>4. ASSUME NEW name \in Names, NEW type \in ConstraintType, NEW list \in ColumnLists,
               AddConstraint(name, type, list) \/ AddConstraintThrows(name, type, list)
        PROVE  RecordsSound'
    <3>1. ASSUME AddConstraintThrows(name, type, list) PROVE UNCHANGED <<columns, flagVars, constraints, altered>>
      BY <3>1, AddThrowsChangesNothing, Zenon DEF AddConstraintThrows
    <3> QED
      BY <1>1, <2>2, <2>4, <3>1, AddRecords, Zenon
  <2>5. ASSUME NEW name \in Names, DropConstraint(name) \/ DropConstraintThrows(name) PROVE RecordsSound'
    <3>1. ASSUME DropConstraintThrows(name), "columns" \notin altered
          PROVE  UNCHANGED <<columns, flagVars, constraints, altered>>
      BY <3>1, DropThrowsChangesNothing, Zenon DEF DropConstraintThrows
    <3>2. ASSUME DropConstraintThrows(name) PROVE altered' = altered
      BY <3>2, Zenon DEF DropConstraintThrows
    <3> QED
      BY <1>1, <2>1, <2>2, <2>5, <3>1, <3>2, DropRecords, Zenon
  <2>6. ASSUME NEW c \in Columns, AddColumn(c) \/ EraseColumn(c) \/ AlterColumn(c) PROVE RecordsSound'
    BY <2>1, <2>6, Zenon DEF AddColumn, EraseColumn, AlterColumn
  <2>7. ASSUME NEW from \in Columns, NEW to \in Columns, RenameColumn(from, to) \/ RenameColumnOntoOther(from, to)
        PROVE  RecordsSound'
    BY <2>1, <2>7, Zenon DEF RenameColumn, RenameColumnOntoOther
  <2>8. CASE ChangeTableBlockSize \/ Restart
    <3>1. constraints' = Forgotten /\ altered' # {}
      BY <2>8, Zenon DEF ChangeTableBlockSize, Restart
    <3>2. Recorded' = {}
      BY <3>1, Zenon DEF Recorded, Forgotten
    <3> QED
      BY <3>1, <3>2, Zenon DEF RecordsSound, RecordsEnforced, RecordsDisjoint, FlagsOnRecord
  <2>9. CASE UNCHANGED vars
    BY <2>2, <2>9, Zenon DEF vars
  <2> QED
    BY <2>3, <2>4, <2>5, <2>6, <2>7, <2>8, <2>9, Zenon DEF Next
<1> QED
  BY <1>2, <1>3, Zenon DEF RecordInv

LEMMA RecordInit == Init => RecordInv
<1> SUFFICES ASSUME Init PROVE RecordInv
  BY Zenon
<1>1. NotNullInv
  BY NotNullInit, Zenon
<1>2. HashmapSpare
  BY Zenon DEF Init, HashmapSpare
<1>3. Recorded = {}
  BY Zenon DEF Init, Recorded, Forgotten
<1>4. \A type \in {"NOT NULL", "UNIQUE"} : Constrained(type) = {}
  BY Zenon DEF Init, Constrained
<1>5. RecordsSound
  BY <1>3, <1>4, Zenon DEF RecordsSound, RecordsEnforced, RecordsDisjoint, FlagsOnRecord
<1> QED
  BY <1>1, <1>2, <1>5, Zenon DEF RecordInv

\* Flags and constraints on record say the same of every column: what is on
\* record is enforced until columns are altered, and what is enforced is on
\* record until the table is altered or restarted.
THEOREM FlagsStayConsistent == Spec => []FlagsConsistent
<1>1. TypeOK /\ RecordInv => FlagsConsistent
  BY Zenon DEF RecordInv, RecordsSound, RecordsEnforced, NotNullInv, FlagsConsistent, ConstraintsEnforced
<1> QED
  BY <1>1, ConstraintTypes, RecordInit, RecordStep, PTL DEF Spec

\* An INSERT, ADD CONSTRAINT or DROP CONSTRAINT that throws changes no flag,
\* no row and no constraint on record, as long as no column was altered.
THEOREM FailuresChangeNothing == Spec => ErrorsChangeNothing
<1> DEFINE Same == outcome' = "error" /\ "columns" \notin altered => UNCHANGED <<columns, rows, flagVars, constraints>>
<1>1. RecordInv /\ [Next]_vars => [Same]_vars
  <2> SUFFICES ASSUME RecordInv, Next, outcome' = "error", "columns" \notin altered
               PROVE  UNCHANGED <<columns, rows, flagVars, constraints>>
    BY Zenon
  <2>1. ASSUME NEW batch \in Batches, InsertRefused(batch) PROVE UNCHANGED <<columns, rows, flagVars, constraints>>
    BY <2>1, Zenon DEF InsertRefused
  <2>2. ASSUME NEW name \in Names, NEW type \in ConstraintType, NEW list \in ColumnLists,
               AddConstraintThrows(name, type, list)
        PROVE  UNCHANGED <<columns, rows, flagVars, constraints>>
    BY <2>2, AddThrowsChangesNothing, Zenon DEF AddConstraintThrows
  <2>3. ASSUME NEW name \in Names, DropConstraintThrows(name) PROVE UNCHANGED <<columns, rows, flagVars, constraints>>
    BY <2>3, DropThrowsChangesNothing, Zenon DEF DropConstraintThrows
  <2>4. \/ \E batch \in Batches : InsertRefused(batch)
        \/ \E name \in Names, type \in ConstraintType, list \in ColumnLists : AddConstraintThrows(name, type, list)
        \/ \E name \in Names : DropConstraintThrows(name)
    BY Zenon DEF Next, InsertData, AddConstraint, DropConstraint, AddColumn, EraseColumn, AlterColumn,
       RenameColumn, RenameColumnOntoOther, ChangeTableBlockSize, Restart
  <2> QED
    BY <2>1, <2>2, <2>3, <2>4, Zenon
<1> QED
  BY <1>1, RecordInit, RecordStep, PTL DEF Spec, ErrorsChangeNothing

=============================================================================
