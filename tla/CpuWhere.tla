------------------------------ MODULE CpuWhere ------------------------------
(***************************************************************************)
(* The evaluation of a WHERE clause on the CPU (CpuWhereListener and       *)
(* CpuSqlDispatcher), which runs before a block is loaded on the GPU and   *)
(* decides whether it has to be: every operation is applied to the least   *)
(* and the greatest value of the block instead of to its rows, and the     *)
(* block is skipped when the last register is 0 at both ends.              *)
(*                                                                         *)
(* The listener walks the expression in postorder, pops the operands of an *)
(* operation from its stack and pushes the register of the result; the     *)
(* dispatcher executes the instructions in the same order.  Here the two   *)
(* go together: a step generates one instruction and executes it for one   *)
(* block.  Every operand also carries what the GPU computes for each row   *)
(* (rows) and how its two ends are related to these values (class); class  *)
(* is a history of the operations used, it influences no step.             *)
(***************************************************************************)
EXTENDS Integers, Sequences

CONSTANTS Rows,            \* the rows of the block
          IntColumns,      \* its numeric columns
          StringColumns,   \* its string columns; strings are numbered in their order
          Data,            \* the values the columns hold
          Literals,        \* the numeric constants of the clause
          StringLiterals,  \* and its string constants
          Null,            \* no value
          Lowest, Highest, \* std::numeric_limits of the numeric type
          NarrowLowest, NarrowHighest, \* and of the type a CAST converts to
          MaxOps           \* bound on the operations of the clause

ASSUME NullAssumption == Null \notin Int
ASSUME RangeAssumption ==
    /\ Lowest \in Int /\ Highest \in Int /\ Lowest <= 0 /\ 0 < Highest
    /\ NarrowLowest \in Lowest .. 0 /\ NarrowHighest \in 0 .. Highest
ASSUME DataAssumption ==
    /\ Data \subseteq Lowest .. Highest
    /\ Literals \subseteq Lowest .. Highest /\ StringLiterals \subseteq Lowest .. Highest
ASSUME BoundsAssumption == MaxOps \in Nat

VARIABLES block,        \* the rows of every column, NULLs included
          statistics,   \* BlockBase::min_ and max_ of every column
          parserStack_, \* the operands of the listener
          operations,   \* how many instructions were generated
          status,       \* "running", "done", or "failed" after an exception
          whereResult_  \* what Execute returns

vars == <<block, statistics, parserStack_, operations, status, whereResult_>>

Columns == IntColumns \cup StringColumns
Classes == {"ordered", "between", "exact", "may", "flagged", "unknown"}

\* int8_t of a C++ condition.
Bit(condition) == IF condition THEN 1 ELSE 0

\* Conversion of a result to a type of the given range.
Wrap(value, low, high) == low + ((value - low) % (high - low + 1))

-----------------------------------------------------------------------------
(***************************************************************************)
(* Block statistics                                                        *)
(***************************************************************************)
Values(column) == {block[column][r] : r \in Rows} \ {Null}

\* setBlockStatistics: the least and the greatest value that is not NULL; none
\* has replaced the initial values when all are NULL.
setBlockStatistics(column, min, max) ==
    \/ Values(column) = {} /\ min = Highest /\ max = Lowest
    \/ min \in Values(column) /\ max \in Values(column) /\ \A v \in Values(column) : min <= v /\ v <= max

\* updateBlockStatistics, row by row: a NULL only counts, and when it is the
\* first row no later comparison replaces the initial bounds.
updateBlockStatistics(column, min, max) ==
    min = Lowest /\ max = Highest /\ \E r \in Rows : block[column][r] = Null

-----------------------------------------------------------------------------
(***************************************************************************)
(* Operands: constants, columns of the table and registers, the latter     *)
(* being those whose name starts with $.  type is that of the value; the   *)
(* flag of a register says that its ends are not to be used.               *)
(***************************************************************************)
Operand(kind, type, ends, rows, class) ==
    [kind |-> kind, type |-> type, min |-> ends.min, max |-> ends.max, flag |-> ends.flag,
     rows |-> rows, class |-> class]

Ends(min, max, flag) == [min |-> min, max |-> max, flag |-> flag]

\* A literal; the instruction reads it from its arguments.
Literal(type, value) ==
    Operand("const", type, Ends(value, value, FALSE), [r \in Rows |-> value], "ordered")

\* LoadCol<T>: registers name_min and name_max with the statistics of the block.
LoadCol(column) ==
    Operand("col", IF column \in IntColumns THEN "int" ELSE "string",
            Ends(statistics[column].min, statistics[column].max, FALSE), block[column], "ordered")

IsConst(x) == x.kind = "const"
IsPlain(x) == x.kind = "col"
IsRegister(x) == x.kind = "reg"

-----------------------------------------------------------------------------
(***************************************************************************)
(* Comparisons                                                             *)
(***************************************************************************)
FilterOps == {"<", "<=", ">", ">=", "=", "!="}
OrderOps == {"<", "<=", ">", ">="}

\* operator() of FilterConditions, and compareStrings for strings, which
\* orders nothing.
Compare(op, type, x, y) ==
    \/ op = "=" /\ x = y
    \/ op = "!=" /\ x # y
    \/ type # "string" /\ (\/ op = "<" /\ x < y
                           \/ op = "<=" /\ x <= y
                           \/ op = ">" /\ x > y
                           \/ op = ">=" /\ x >= y)

\* The two masks of a comparison with a constant.  For = and != both are the
\* test that the constant is inside the bounds; for an order the operator is
\* applied to each bound.
ConstMask(op, type, col, cnst) ==
    IF op \in OrderOps
    THEN Ends(Bit(Compare(op, type, col.min, cnst)), Bit(Compare(op, type, col.max, cnst)), col.flag)
    ELSE LET inside == Bit(cnst >= col.min /\ cnst <= col.max) IN Ends(inside, inside, col.flag)

FilterColConst(op, col, cnst) == ConstMask(op, col.type, col, cnst.min)

\* The constant on the left: the same code, with the bound still first.
FilterConstCol(op, cnst, col) == ConstMask(op, col.type, col, cnst.min)

\* Two columns of the table are not evaluated; else minimum with minimum and
\* maximum with maximum.
filterColCol(op, left, right) ==
    IF IsPlain(left) /\ IsPlain(right) THEN Ends(1, 1, TRUE)
    ELSE Ends(Bit(Compare(op, left.type, left.min, right.min)),
              Bit(Compare(op, left.type, left.max, right.max)), left.flag \/ right.flag)

filterConstConst(op, left, right) ==
    LET mask == Bit(Compare(op, left.type, left.min, right.min)) IN Ends(mask, mask, FALSE)

Filter(op, left, right) ==
    CASE IsConst(left) /\ IsConst(right) -> filterConstConst(op, left, right)
      [] IsConst(left) /\ ~IsConst(right) -> FilterConstCol(op, left, right)
      [] ~IsConst(left) /\ IsConst(right) -> FilterColConst(op, left, right)
      [] ~IsConst(left) /\ ~IsConst(right) -> filterColCol(op, left, right)

\* The kernel: a NULL row is not selected, and the result has no NULLs.
FilterRows(op, left, right) ==
    [r \in Rows |-> Bit(/\ left.rows[r] # Null /\ right.rows[r] # Null
                        /\ Compare(op, left.type, left.rows[r], right.rows[r]))]

-----------------------------------------------------------------------------
(***************************************************************************)
(* AND, OR and NOT                                                         *)
(***************************************************************************)
LogicalOps == {"AND", "OR"}

Truth(op, x, y) ==
    \/ op = "AND" /\ x # 0 /\ y # 0
    \/ op = "OR" /\ (x # 0 \/ y # 0)

\* A register loses the flag of its operand, a column of the table has none.
LogicalColConst(op, col, cnst) ==
    Ends(Bit(Truth(op, col.min, cnst.min)), Bit(Truth(op, col.max, cnst.min)), IsPlain(col) /\ col.flag)

LogicalConstCol(op, cnst, col) ==
    Ends(Bit(Truth(op, cnst.min, col.min)), Bit(Truth(op, cnst.min, col.max)), IsPlain(col) /\ col.flag)

\* mutant: the registers are joined end by end, as a register and a column are.
LogicalColColEndwise(op, left, right) ==
    Ends(Bit(Truth(op, left.min, right.min)), Bit(Truth(op, left.max, right.max)), FALSE)

\* Two registers: what may hold of either end may hold of both operands.
LogicalColCol(op, left, right) ==
    IF IsPlain(left) /\ IsPlain(right) THEN Ends(1, 1, TRUE)
    ELSE IF IsPlain(left) \/ IsPlain(right)
    THEN Ends(Bit(Truth(op, left.min, right.min)), Bit(Truth(op, left.max, right.max)),
              left.flag \/ right.flag)
    ELSE LET mask == Bit(Truth(op, Bit(Truth("OR", left.min, left.max)),
                                   Bit(Truth("OR", right.min, right.max))))
         IN Ends(mask, mask, FALSE)

LogicalConstConst(op, left, right) ==
    LET mask == Bit(Truth(op, left.min, right.min)) IN Ends(mask, mask, FALSE)

Logical(op, left, right) ==
    CASE IsConst(left) /\ IsConst(right) -> LogicalConstConst(op, left, right)
      [] IsConst(left) /\ ~IsConst(right) -> LogicalConstCol(op, left, right)
      [] ~IsConst(left) /\ IsConst(right) -> LogicalColConst(op, left, right)
      [] ~IsConst(left) /\ ~IsConst(right) -> LogicalColCol(op, left, right)

LogicalRows(op, left, right) ==
    [r \in Rows |-> Bit(/\ left.rows[r] # Null /\ right.rows[r] # Null
                        /\ Truth(op, left.rows[r], right.rows[r]))]

\* LogicalNotCol and LogicalNotConst.
LogicalNot(x) == Ends(Bit(x.min = 0), Bit(x.max = 0), x.flag)

LogicalNotRows(x) == [r \in Rows |-> Bit(x.rows[r] # Null /\ x.rows[r] = 0)]

\* IS NULL and IS NOT NULL: the block is always loaded.
NullCol == Ends(1, 1, TRUE)

\* ContainsColConst and the three others: neither are geometries evaluated.
Contains == Ends(1, 1, TRUE)

NullRows(op, x) == [r \in Rows |-> Bit((x.rows[r] = Null) = (op = "IS NULL"))]

-----------------------------------------------------------------------------
(***************************************************************************)
(* Arithmetic                                                              *)
(***************************************************************************)
ArithmeticOps == {"+", "-", "*", "/", "%", "pow"}
UnaryOps == {"minus", "abs"}

\* OP::isMonotonous.
isMonotonous(op) == op \in {"+", "-", "*", "/", "%", "minus"}

\* Division that truncates towards zero, and its remainder.
Quotient(x, y) ==
    IF y > 0 THEN IF x >= 0 THEN x \div y ELSE -((-x) \div y)
             ELSE IF x >= 0 THEN -(x \div (-y)) ELSE (-x) \div (-y)

Exact(op, x, y) ==
    CASE op = "+" -> x + y
      [] op = "-" -> x - y
      [] op = "*" -> x * y
      [] op = "/" -> Quotient(x, y)
      [] op = "%" -> x - y * Quotient(x, y)
      [] op = "pow" -> IF y = 0 THEN 1 ELSE IF y = 1 THEN x ELSE x * x

\* operator() of ArithmeticOperations in the type of the result.
Apply(op, x, y) == Wrap(Exact(op, x, y), Lowest, Highest)

\* The ends are computed without checks: no division by 0 here.  Powers up
\* to the square.
Defined(op, y) == (op \in {"/", "%"} => y # 0) /\ (op = "pow" => y \in 0 .. 2)

ArithmeticColConst(op, col, cnst) ==
    Ends(Apply(op, col.min, cnst.min), Apply(op, col.max, cnst.min), col.flag \/ ~isMonotonous(op))

arithmeticConstCol(op, cnst, col) ==
    Ends(Apply(op, cnst.min, col.min), Apply(op, cnst.min, col.max), col.flag \/ ~isMonotonous(op))

arithmeticColCol(op, left, right) ==
    IF IsPlain(left) /\ IsPlain(right) THEN Ends(1, 1, TRUE)
    ELSE Ends(Apply(op, left.min, right.min), Apply(op, left.max, right.max),
              left.flag \/ right.flag \/ ~isMonotonous(op))

arithmeticConstConst(op, left, right) ==
    Ends(Apply(op, left.min, right.min), Apply(op, left.min, right.min), FALSE)

Arithmetic(op, left, right) ==
    CASE IsConst(left) /\ IsConst(right) -> arithmeticConstConst(op, left, right)
      [] IsConst(left) /\ ~IsConst(right) -> arithmeticConstCol(op, left, right)
      [] ~IsConst(left) /\ IsConst(right) -> ArithmeticColConst(op, left, right)
      [] ~IsConst(left) /\ ~IsConst(right) -> arithmeticColCol(op, left, right)

InRange(x, low, high) == low <= x /\ x <= high

\* The kernel checks for a division by 0 and for overflow.
Checked(op, x, y) ==
    /\ op \in {"/", "%"} => y # 0
    /\ op \in {"+", "-", "*"} => InRange(Exact(op, x, y), Lowest, Highest)

\* The kernel: the result has the NULLs of both operands.  A row that fails
\* a check ends the query with an error; it has no value either.
ArithmeticRows(op, left, right) ==
    [r \in Rows |-> IF left.rows[r] # Null /\ right.rows[r] # Null
                       /\ Checked(op, left.rows[r], right.rows[r])
                    THEN Apply(op, left.rows[r], right.rows[r]) ELSE Null]

ApplyUnary(op, x) == Wrap(IF op = "minus" \/ x < 0 THEN -x ELSE x, Lowest, Highest)

\* ArithmeticUnaryCol and ArithmeticUnaryConst.
ArithmeticUnary(op, x) ==
    Ends(ApplyUnary(op, x.min), ApplyUnary(op, x.max), x.flag \/ ~isMonotonous(op))

ArithmeticUnaryRows(op, x) ==
    [r \in Rows |-> IF x.rows[r] = Null THEN Null ELSE ApplyUnary(op, x.rows[r])]

\* static_cast to the narrower type.
Narrow(x) == Wrap(x, NarrowLowest, NarrowHighest)

\* CastNumericCol and CastNumericConst.
CastNumeric(x) == Ends(Narrow(x.min), Narrow(x.max), x.flag)

CastRows(x) == [r \in Rows |-> IF x.rows[r] = Null THEN Null ELSE Narrow(x.rows[r])]

-----------------------------------------------------------------------------
(***************************************************************************)
(* What the ends of a result say of its rows, as far as the operation      *)
(* keeps it:                                                               *)
(*   ordered  every value is between min and max                           *)
(*   between  every value is between the two ends, in one order or other   *)
(*   exact    a row that is true (false) has an end that is true (false)   *)
(*   may      a row that is true has an end that is true                   *)
(*   flagged  the ends say nothing and the flag says so                    *)
(*   unknown  the ends say nothing and the flag does not say so            *)
(***************************************************************************)
Numeric == {"ordered", "between"}
Sound == {"ordered", "between", "exact", "may"}

WithNulls(x) == \E r \in Rows : x.rows[r] = Null

FilterClass(op, left, right, ends) ==
    LET column == IF IsConst(left) THEN right ELSE left IN
    IF IsConst(left) /\ IsConst(right) THEN "exact"
    ELSE IF IsPlain(left) /\ IsPlain(right) THEN "may"
    ELSE IF ends.flag THEN "flagged"
    ELSE IF left.type = "string" /\ op \in OrderOps THEN "exact"
    ELSE IF op \in OrderOps /\ IsConst(right) /\ left.class \in Numeric
    THEN IF WithNulls(left) THEN "may" ELSE "exact"
    ELSE IF op = "=" /\ (IsConst(left) \/ IsConst(right)) /\ column.class = "ordered" THEN "may"
    ELSE "unknown"

LogicalClass(op, left, right, ends) ==
    LET column == IF IsConst(left) THEN right ELSE left IN
    IF IsConst(left) /\ IsConst(right) THEN "exact"
    ELSE IF IsConst(left) \/ IsConst(right)
    THEN IF column.class = "exact" THEN "exact"
         ELSE IF column.class \in Sound THEN "may" ELSE "unknown"
    ELSE IF IsPlain(left) /\ IsPlain(right) THEN "may"
    ELSE IF left.class \in Sound /\ right.class \in Sound
            /\ (op = "OR" \/ ~(IsPlain(left) \/ IsPlain(right))) THEN "may"
    ELSE IF ends.flag THEN "flagged"
    ELSE "unknown"

NotClass(x) ==
    IF IsConst(x) \/ x.class = "exact" THEN "exact" ELSE IF x.flag THEN "flagged" ELSE "unknown"

\* Neither end of the result left the range of its type.
NoOverflow(op, left, right) ==
    /\ InRange(Exact(op, left.min, right.min), Lowest, Highest)
    /\ InRange(Exact(op, left.max, right.max), Lowest, Highest)

\* The class of a column of the given class after an operation with a
\* constant that keeps or reverses the order of the values.
Reversed(class) == IF class \in Numeric THEN "between" ELSE "unknown"
Kept(class) == IF class \in Numeric THEN class ELSE "unknown"

ArithmeticClass(op, left, right, ends) ==
    IF IsConst(left) /\ IsConst(right) THEN "ordered"
    ELSE IF ends.flag THEN "flagged"
    ELSE IF ~NoOverflow(op, left, right) \/ op = "%" THEN "unknown"
    ELSE IF IsConst(right)
    THEN IF op \in {"+", "-"} \/ right.min >= 0 THEN Kept(left.class) ELSE Reversed(left.class)
    ELSE IF IsConst(left)
    THEN IF op = "+" \/ (op = "*" /\ left.min >= 0) THEN Kept(right.class)
         ELSE IF op \in {"-", "*"} THEN Reversed(right.class) ELSE "unknown"
    ELSE IF op = "+" /\ left.class = "ordered" /\ right.class = "ordered" THEN "ordered" ELSE "unknown"

ArithmeticUnaryClass(x, ends) ==
    IF ends.flag THEN "flagged"
    ELSE IF InRange(-x.min, Lowest, Highest) /\ InRange(-x.max, Lowest, Highest) THEN Reversed(x.class)
    ELSE "unknown"

CastClass(x) ==
    IF x.flag THEN "flagged"
    ELSE IF InRange(x.min, NarrowLowest, NarrowHighest) /\ InRange(x.max, NarrowLowest, NarrowHighest)
    THEN Kept(x.class) ELSE "unknown"

-----------------------------------------------------------------------------
(***************************************************************************)
(* The listener and the instructions it generates                          *)
(***************************************************************************)
Init ==
    /\ block \in [Columns -> [Rows -> Data \cup {Null}]]
    /\ statistics \in [Columns -> [min : Data \cup {Lowest, Highest}, max : Data \cup {Lowest, Highest}]]
    /\ \A c \in Columns : \/ setBlockStatistics(c, statistics[c].min, statistics[c].max)
                          \/ updateBlockStatistics(c, statistics[c].min, statistics[c].max)
    /\ parserStack_ = <<>>
    /\ operations = 0
    /\ status = "running"
    /\ whereResult_ = 0

Top == parserStack_[Len(parserStack_)]
Second == parserStack_[Len(parserStack_) - 1]

\* A stack of n operands takes n - 1 operations to become one: the bound
\* leaves room for them.
Push(x) ==
    /\ operations + Len(parserStack_) <= MaxOps
    /\ parserStack_' = Append(parserStack_, x)
    /\ UNCHANGED <<block, statistics, operations, status, whereResult_>>

exitLiteral(type, value) ==
    /\ status = "running"
    /\ Push(Literal(type, value))

exitVarReference(column) ==
    /\ status = "running"
    /\ Push(LoadCol(column))

\* The result of an operation takes the place of its operands.
PushTempResult(operands, result) ==
    /\ status = "running"
    /\ Len(parserStack_) >= operands
    /\ operations + 1 + Len(parserStack_) - operands <= MaxOps
    /\ parserStack_' = Append(SubSeq(parserStack_, 1, Len(parserStack_) - operands), result)
    /\ operations' = operations + 1
    /\ UNCHANGED <<block, statistics, status, whereResult_>>

\* Operand types the tables of instructions have a function for.  Two
\* registers of different widths under AND or OR are read past their end by
\* LogicalColCol, which no step here does.
CanCompare(left, right) == (left.type = "string") = (right.type = "string")
CanJoin(left, right) ==
    /\ left.type # "string" /\ right.type # "string"
    /\ IsRegister(left) /\ IsRegister(right) => left.type = right.type
CanCompute(op, left, right) ==
    /\ left.type = "int" /\ right.type = "int"
    /\ Defined(op, right.min) /\ Defined(op, right.max)
    /\ op = "pow" => \A r \in Rows : right.rows[r] # Null => Defined(op, right.rows[r])

exitFilterOperation(op) ==
    /\ Len(parserStack_) >= 2
    /\ CanCompare(Second, Top)
    /\ LET ends == Filter(op, Second, Top) IN
       PushTempResult(2, Operand("reg", "bool", ends, FilterRows(op, Second, Top),
                                 FilterClass(op, Second, Top, ends)))

exitLogicalOperation(op) ==
    /\ Len(parserStack_) >= 2
    /\ CanJoin(Second, Top)
    /\ LET ends == Logical(op, Second, Top) IN
       PushTempResult(2, Operand("reg", "bool", ends, LogicalRows(op, Second, Top),
                                 LogicalClass(op, Second, Top, ends)))

exitArithmeticOperation(op) ==
    /\ Len(parserStack_) >= 2
    /\ CanCompute(op, Second, Top)
    /\ LET ends == Arithmetic(op, Second, Top) IN
       PushTempResult(2, Operand("reg", "int", ends, ArithmeticRows(op, Second, Top),
                                 ArithmeticClass(op, Second, Top, ends)))

exitNotOperation ==
    /\ parserStack_ # <<>>
    /\ Top.type # "string"
    /\ PushTempResult(1, Operand("reg", "bool", LogicalNot(Top), LogicalNotRows(Top), NotClass(Top)))

exitNullOperation(op) ==
    /\ parserStack_ # <<>>
    /\ IsPlain(Top)
    /\ PushTempResult(1, Operand("reg", "bool", NullCol, NullRows(op, Top), "may"))

\* CONTAINS of two geometries, of which other operations take none: as a
\* leaf, true of any rows.
exitContainsOperation(rows) ==
    /\ status = "running"
    /\ PushTempResult(0, Operand("reg", "bool", Contains, [r \in Rows |-> Bit(r \in rows)], "may"))

exitArithmeticUnaryOperation(op) ==
    /\ parserStack_ # <<>>
    /\ Top.type = "int"
    /\ LET ends == ArithmeticUnary(op, Top) IN
       PushTempResult(1, Operand("reg", "int", ends, ArithmeticUnaryRows(op, Top),
                                 ArithmeticUnaryClass(Top, ends)))

exitCastOperation ==
    /\ parserStack_ # <<>>
    /\ Top.type = "int"
    /\ PushTempResult(1, Operand("reg", "int", CastNumeric(Top), CastRows(Top), CastClass(Top)))

\* An exception ends the query: a string among numbers, IS NULL of what is
\* no column (thrown by the listener for a constant, by the GPU, which gets
\* the block, for a register), or a clause that is one column of the table,
\* for which nothing has made registers.
Fail ==
    /\ status = "running"
    /\ status' = "failed"
    /\ UNCHANGED <<block, statistics, parserStack_, operations, whereResult_>>

InvalidOperandTypesErrorHandler ==
    /\ Len(parserStack_) >= 2
    /\ operations < MaxOps
    /\ Second.type = "string" \/ Top.type = "string"
    /\ Fail

NullMaskOperationInvalidOperand ==
    /\ parserStack_ # <<>>
    /\ operations < MaxOps
    /\ ~IsPlain(Top)
    /\ Fail

ColumnAsClause ==
    /\ Len(parserStack_) = 1
    /\ IsPlain(Top)
    /\ Fail

\* mutant: both ends have to be true for the block to be loaded.
WhereResultBoth(x) == IF IsConst(x) \/ x.flag THEN 1 ELSE Bit(x.min # 0 /\ x.max # 0)

\* WhereResultCol; for a clause that is one constant WhereResultConst reads
\* the length of its text, which is not 0.
WhereResult(x) == IF IsConst(x) \/ x.flag THEN 1 ELSE Bit(x.min # 0 \/ x.max # 0)

\* The operand stays on the stack here, for the properties.
exitWhereClause ==
    /\ status = "running"
    /\ Len(parserStack_) = 1
    /\ ~IsPlain(Top)
    /\ whereResult_' = WhereResult(Top)
    /\ status' = "done"
    /\ UNCHANGED <<block, statistics, parserStack_, operations>>

Next ==
    \/ \E value \in Literals : exitLiteral("int", value)
    \/ \E value \in StringLiterals : exitLiteral("string", value)
    \/ \E column \in Columns : exitVarReference(column)
    \/ \E op \in FilterOps : exitFilterOperation(op)
    \/ \E op \in LogicalOps : exitLogicalOperation(op)
    \/ \E op \in ArithmeticOps : exitArithmeticOperation(op)
    \/ exitNotOperation
    \/ \E op \in {"IS NULL", "IS NOT NULL"} : exitNullOperation(op)
    \/ \E rows \in SUBSET Rows : exitContainsOperation(rows)
    \/ \E op \in UnaryOps : exitArithmeticUnaryOperation(op)
    \/ exitCastOperation
    \/ InvalidOperandTypesErrorHandler
    \/ NullMaskOperationInvalidOperand
    \/ ColumnAsClause
    \/ exitWhereClause

Spec == Init /\ [][Next]_vars

-----------------------------------------------------------------------------
(***************************************************************************)
(* Properties                                                              *)
(***************************************************************************)
Between(x, v) == (x.min <= v /\ v <= x.max) \/ (x.max <= v /\ v <= x.min)
True(v) == v # Null /\ v # 0

Operands ==
    [kind : {"const", "col", "reg"}, type : {"int", "bool", "string"}, min : Int, max : Int,
     flag : BOOLEAN, rows : [Rows -> Int \cup {Null}], class : Classes]

TypeOK ==
    /\ block \in [Columns -> [Rows -> Data \cup {Null}]]
    /\ statistics \in [Columns -> [min : Int, max : Int]]
    /\ parserStack_ \in Seq(Operands)
    /\ operations \in 0 .. MaxOps
    /\ status \in {"running", "done", "failed"}
    /\ whereResult_ \in {0, 1}

\* What the class of an operand promises.
Meaning(x) ==
    /\ x.class = "ordered" => \A r \in Rows : x.rows[r] # Null => x.min <= x.rows[r] /\ x.rows[r] <= x.max
    /\ x.class \in Numeric => \A r \in Rows : x.rows[r] # Null => Between(x, x.rows[r])
    /\ x.class \in {"exact", "may"} => \A r \in Rows : True(x.rows[r]) => x.min # 0 \/ x.max # 0
    /\ x.class = "exact" => \A r \in Rows : x.rows[r] # Null /\ (x.rows[r] = 0 => x.min = 0 \/ x.max = 0)
    /\ x.class = "flagged" => x.flag

\* The two ends of every register of the evaluation say of the rows of the
\* block what their class promises, whatever instructions computed them.
RegistersSound == TypeOK /\ \A k \in 1 .. Len(parserStack_) : Meaning(parserStack_[k])

\* A block that the evaluation skips has no row that the clause selects, for
\* every clause built from operations that keep the ends meaningful.
SkippedBlocksEmpty ==
    status = "done" /\ whereResult_ = 0 /\ Top.class # "unknown" =>
        \A r \in Rows : ~True(Top.rows[r])
=============================================================================
