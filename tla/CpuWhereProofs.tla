--------------------------- MODULE CpuWhereProofs ---------------------------
(***************************************************************************)
(* Proofs about CpuWhere, for every block, every clause and every width of *)
(* the numbers.                                                            *)
(***************************************************************************)
EXTENDS CpuWhere, TLAPS

\* What is known of an operand that no instruction computed.
Leaf(x) ==
    /\ x.kind = "const" => /\ x.flag = FALSE /\ x.class = "ordered" /\ x.min = x.max
                           /\ \A r \in Rows : x.rows[r] = x.min
    /\ x.kind = "col" => x.flag = FALSE /\ x.class = "ordered"

Good(x) == x \in Operands /\ Meaning(x) /\ Leaf(x)

\* The statistics of a block enclose its values.
Enclosed ==
    \A c \in Columns : \A r \in Rows :
        block[c][r] # Null => statistics[c].min <= block[c][r] /\ block[c][r] <= statistics[c].max

\* The inductive invariant.
IInv ==
    /\ TypeOK
    /\ Enclosed
    /\ \A k \in 1 .. Len(parserStack_) : Good(parserStack_[k])
    /\ status = "done" => Len(parserStack_) = 1 /\ whereResult_ = WhereResult(Top)

-----------------------------------------------------------------------------
(***************************************************************************)
(* Arithmetic                                                              *)
(***************************************************************************)
\* The conversion to a type gives a value of the type, and a value of the
\* type is not changed by it.
LEMMA WrapRange ==
    ASSUME NEW x \in Int, NEW low \in Int, NEW high \in Int, low <= high
    PROVE  /\ Wrap(x, low, high) \in Int
           /\ low <= x /\ x <= high => Wrap(x, low, high) = x
<1> DEFINE m == high - low + 1
<1>1. m \in Int /\ m > 0
  OBVIOUS
<1>2. (x - low) % m \in Int
  BY <1>1
<1>3. ASSUME low <= x, x <= high PROVE (x - low) % m = x - low
  BY <1>1, <1>3
<1> QED
  BY <1>2, <1>3 DEF Wrap

\* Division by a positive constant keeps the order of natural numbers.
LEMMA DivMonotone ==
    ASSUME NEW x \in Nat, NEW y \in Nat, NEW c \in Nat, c > 0, x <= y
    PROVE  x \div c <= y \div c /\ x \div c \in Nat /\ y \div c \in Nat
<1> DEFINE p == x \div c
           q == y \div c
<1>1. p \in Int /\ q \in Int /\ p >= 0 /\ q >= 0
  OBVIOUS
<1>2. x = c * p + (x % c) /\ y = c * q + (y % c)
  OBVIOUS
<1>3. x % c \in 0 .. c - 1 /\ y % c \in 0 .. c - 1
  OBVIOUS
<1>4. c * p <= c * q + (c - 1)
  BY <1>1, <1>2, <1>3
<1>5. ASSUME p > q PROVE FALSE
  <2>1. p >= q + 1
    BY <1>1, <1>5
  <2> HIDE DEF p, q
  <2>2. c * p >= c * (q + 1)
    BY <2>1, <1>1
  <2>3. c * (q + 1) = c * q + c
    BY <1>1
  <2>4. c * q \in Int /\ c * p \in Int
    BY <1>1
  <2> QED
    BY <2>2, <2>3, <2>4, <1>4
<1> QED
  BY <1>1, <1>5

\* Division truncated towards zero keeps the order when the divisor is
\* positive and reverses it when it is negative.
LEMMA QuotientOrder ==
    ASSUME NEW x \in Int, NEW y \in Int, NEW c \in Int, c # 0, x <= y
    PROVE  /\ Quotient(x, c) \in Int /\ Quotient(y, c) \in Int
           /\ c > 0 => Quotient(x, c) <= Quotient(y, c)
           /\ c < 0 => Quotient(y, c) <= Quotient(x, c)
<1> DEFINE d == IF c > 0 THEN c ELSE -c
           t(z) == IF z >= 0 THEN z \div d ELSE -((-z) \div d)
<1>1. d \in Nat /\ d > 0
  OBVIOUS
<1>2. \A z \in Nat : z \div d \in Nat
  BY <1>1, DivMonotone
<1>3. t(x) \in Int /\ t(y) \in Int
  BY <1>1, <1>2
<1>4. t(x) <= t(y)
  <2>1. CASE x >= 0
    <3>1. x \in Nat /\ y \in Nat
      BY <2>1
    <3> QED
      BY <3>1, <1>1, DivMonotone
  <2>2. CASE x < 0 /\ y >= 0
    <3>1. -x \in Nat /\ y \in Nat
      BY <2>2
    <3>2. (-x) \div d \in Nat /\ y \div d \in Nat
      BY <3>1, <1>2, Zenon
    <3> QED
      BY <3>2, <2>2
  <2>3. CASE y < 0
    <3>1. -x \in Nat /\ -y \in Nat /\ -y <= -x
      BY <2>3
    <3>2. (-y) \div d <= (-x) \div d /\ (-y) \div d \in Nat /\ (-x) \div d \in Nat
      BY <3>1, <1>1, DivMonotone, Zenon
    <3> QED
      BY <3>2, <2>3
  <2> QED
    BY <2>1, <2>2, <2>3
<1>5. CASE c > 0
  <2>1. d = c
    BY <1>5, Zenon
  <2>2. Quotient(x, c) = t(x) /\ Quotient(y, c) = t(y)
    BY <2>1, <1>5, Zenon DEF Quotient
  <2> HIDE DEF t, d
  <2> QED
    BY <2>2, <1>3, <1>4, <1>5
<1>6. CASE c < 0
  <2>1. d = -c
    BY <1>6
  <2>2. Quotient(x, c) = -t(x) /\ Quotient(y, c) = -t(y)
    <3>1. \A z \in Nat : z \div d \in Nat
      BY <1>2, Zenon
    <3> QED
      BY <2>1, <1>6, <3>1 DEF Quotient
  <2> HIDE DEF t, d
  <2> QED
    BY <2>2, <1>3, <1>4, <1>6
<1> QED
  BY <1>5, <1>6

\* The results of the operations are integers.
LEMMA ExactType ==
    ASSUME NEW op \in ArithmeticOps, NEW x \in Int, NEW y \in Int, Defined(op, y)
    PROVE  Exact(op, x, y) \in Int /\ Apply(op, x, y) \in Int
<1>1. op \in {"/", "%"} => Quotient(x, y) \in Int
  BY QuotientOrder DEF Defined
<1>2. Exact(op, x, y) \in Int
  <2>1. CASE op = "+"
    BY <2>1 DEF Exact
  <2>2. CASE op = "-"
    BY <2>2 DEF Exact
  <2>3. CASE op = "*"
    BY <2>3 DEF Exact
  <2>4. CASE op = "/"
    BY <2>4, <1>1, Zenon DEF Exact
  <2>5. CASE op = "%"
    <3>1. y * Quotient(x, y) \in Int
      BY <2>5, <1>1
    <3> QED
      BY <2>5, <3>1 DEF Exact
  <2>6. CASE op = "pow"
    BY <2>6 DEF Exact
  <2> QED
    BY <2>1, <2>2, <2>3, <2>4, <2>5, <2>6, Zenon DEF ArithmeticOps
<1> QED
  BY <1>2, WrapRange, RangeAssumption DEF Apply

\* The constant c on the right, or on the left, of op.
KeepsRight(op, c) == op \in {"+", "-"} \/ (op \in {"*", "/"} /\ c >= 0)
ReversesRight(op, c) == op \in {"*", "/"} /\ c < 0
KeepsLeft(op, c) == op = "+" \/ (op = "*" /\ c >= 0)
ReversesLeft(op, c) == op = "-" \/ (op = "*" /\ c < 0)

\* An operation with a constant keeps the order of the values of its other
\* operand, or reverses it.
LEMMA ConstantOrder ==
    ASSUME NEW op \in ArithmeticOps, NEW x \in Int, NEW y \in Int, NEW c \in Int, x <= y
    PROVE  /\ Defined(op, c) /\ KeepsRight(op, c) => Exact(op, x, c) <= Exact(op, y, c)
           /\ Defined(op, c) /\ ReversesRight(op, c) => Exact(op, y, c) <= Exact(op, x, c)
           /\ KeepsLeft(op, c) => Exact(op, c, x) <= Exact(op, c, y)
           /\ ReversesLeft(op, c) => Exact(op, c, y) <= Exact(op, c, x)
<1>1. c >= 0 => x * c <= y * c /\ c * x <= c * y
  OBVIOUS
<1>2. c < 0 => y * c <= x * c /\ c * y <= c * x
  OBVIOUS
<1>3. c # 0 => /\ c > 0 => Quotient(x, c) <= Quotient(y, c)
               /\ c < 0 => Quotient(y, c) <= Quotient(x, c)
  BY QuotientOrder, Zenon
<1>4. CASE op \in {"+", "-"}
  BY <1>4 DEF Exact, KeepsRight, ReversesRight, KeepsLeft, ReversesLeft
<1>5. CASE op = "*"
  BY <1>5, <1>1, <1>2, Zenon DEF Exact, KeepsRight, ReversesRight, KeepsLeft, ReversesLeft
<1>6. CASE op = "/"
  BY <1>6, <1>3 DEF Exact, Defined, KeepsRight, ReversesRight, KeepsLeft, ReversesLeft
<1>7. CASE op \in {"%", "pow"}
  BY <1>7, Zenon DEF KeepsRight, ReversesRight, KeepsLeft, ReversesLeft
<1> QED
  BY <1>4, <1>5, <1>6, <1>7, Zenon DEF ArithmeticOps

\* A value between two ends, in one order or the other.
Inside(v, e, f) == (e <= v /\ v <= f) \/ (f <= v /\ v <= e)

\* The operation applied to a value between two ends that do not overflow
\* is between the results of the ends, and does not overflow.
LEMMA ConstantBetween ==
    ASSUME NEW op \in ArithmeticOps, NEW v \in Int, NEW e \in Int, NEW f \in Int, NEW c \in Int,
           Inside(v, e, f)
    PROVE  /\ /\ Defined(op, c) /\ (KeepsRight(op, c) \/ ReversesRight(op, c))
              /\ InRange(Exact(op, e, c), Lowest, Highest) /\ InRange(Exact(op, f, c), Lowest, Highest)
              => /\ Inside(Apply(op, v, c), Apply(op, e, c), Apply(op, f, c))
                 /\ KeepsRight(op, c) /\ e <= v /\ v <= f
                    => Apply(op, e, c) <= Apply(op, v, c) /\ Apply(op, v, c) <= Apply(op, f, c)
           /\ /\ KeepsLeft(op, c) \/ ReversesLeft(op, c)
              /\ InRange(Exact(op, c, e), Lowest, Highest) /\ InRange(Exact(op, c, f), Lowest, Highest)
              => /\ Inside(Apply(op, c, v), Apply(op, c, e), Apply(op, c, f))
                 /\ KeepsLeft(op, c) /\ e <= v /\ v <= f
                    => Apply(op, c, e) <= Apply(op, c, v) /\ Apply(op, c, v) <= Apply(op, c, f)
<1>w. \A z \in Int : InRange(z, Lowest, Highest) => Wrap(z, Lowest, Highest) = z
  BY WrapRange, RangeAssumption DEF InRange
<1>1. ASSUME Defined(op, c), KeepsRight(op, c) \/ ReversesRight(op, c),
             InRange(Exact(op, e, c), Lowest, Highest), InRange(Exact(op, f, c), Lowest, Highest)
      PROVE  /\ Inside(Apply(op, v, c), Apply(op, e, c), Apply(op, f, c))
             /\ KeepsRight(op, c) /\ e <= v /\ v <= f
                => Apply(op, e, c) <= Apply(op, v, c) /\ Apply(op, v, c) <= Apply(op, f, c)
  <2> DEFINE V == Exact(op, v, c)
             E == Exact(op, e, c)
             F == Exact(op, f, c)
  <2>1. V \in Int /\ E \in Int /\ F \in Int
    BY <1>1, ExactType, Zenon
  <2>2. /\ e <= v /\ v <= f /\ KeepsRight(op, c) => E <= V /\ V <= F
        /\ e <= v /\ v <= f /\ ReversesRight(op, c) => F <= V /\ V <= E
        /\ f <= v /\ v <= e /\ KeepsRight(op, c) => F <= V /\ V <= E
        /\ f <= v /\ v <= e /\ ReversesRight(op, c) => E <= V /\ V <= F
    BY <1>1, ConstantOrder, Zenon
  <2>3. InRange(V, Lowest, Highest)
    BY <2>1, <2>2, <1>1, RangeAssumption DEF InRange, Inside
  <2>4. Apply(op, v, c) = V /\ Apply(op, e, c) = E /\ Apply(op, f, c) = F
    BY <2>1, <2>3, <1>1, <1>w, Zenon DEF Apply
  <2> HIDE DEF V, E, F
  <2> QED
    BY <2>2, <2>4, <1>1, Zenon DEF Inside
<1>2. ASSUME KeepsLeft(op, c) \/ ReversesLeft(op, c),
             InRange(Exact(op, c, e), Lowest, Highest), InRange(Exact(op, c, f), Lowest, Highest)
      PROVE  /\ Inside(Apply(op, c, v), Apply(op, c, e), Apply(op, c, f))
             /\ KeepsLeft(op, c) /\ e <= v /\ v <= f
                => Apply(op, c, e) <= Apply(op, c, v) /\ Apply(op, c, v) <= Apply(op, c, f)
  <2> DEFINE V == Exact(op, c, v)
             E == Exact(op, c, e)
             F == Exact(op, c, f)
  <2>0. \A y : Defined(op, y)
    BY <1>2, Zenon DEF Defined, KeepsLeft, ReversesLeft
  <2>1. V \in Int /\ E \in Int /\ F \in Int
    BY <2>0, ExactType, Zenon
  <2>2. /\ e <= v /\ v <= f /\ KeepsLeft(op, c) => E <= V /\ V <= F
        /\ e <= v /\ v <= f /\ ReversesLeft(op, c) => F <= V /\ V <= E
        /\ f <= v /\ v <= e /\ KeepsLeft(op, c) => F <= V /\ V <= E
        /\ f <= v /\ v <= e /\ ReversesLeft(op, c) => E <= V /\ V <= F
    BY <1>2, ConstantOrder, Zenon
  <2>3. InRange(V, Lowest, Highest)
    BY <2>1, <2>2, <1>2, RangeAssumption DEF InRange, Inside
  <2>4. Apply(op, c, v) = V /\ Apply(op, c, e) = E /\ Apply(op, c, f) = F
    BY <2>1, <2>3, <1>2, <1>w, Zenon DEF Apply
  <2> HIDE DEF V, E, F
  <2> QED
    BY <2>2, <2>4, <1>2, Zenon DEF Inside
<1> QED
  BY <1>1, <1>2, Zenon

-----------------------------------------------------------------------------
(***************************************************************************)
(* Registers                                                               *)
(***************************************************************************)
EndsType == [min : Int, max : Int, flag : BOOLEAN]
RowsType == [Rows -> Int \cup {Null}]

\* What the ends of a register have to say of the rows it stands for.
Says(ends, rows, class) ==
    /\ class = "ordered" => \A r \in Rows : rows[r] # Null => ends.min <= rows[r] /\ rows[r] <= ends.max
    /\ class \in Numeric => \A r \in Rows : rows[r] # Null => Inside(rows[r], ends.min, ends.max)
    /\ class \in {"exact", "may"} => \A r \in Rows : True(rows[r]) => ends.min # 0 \/ ends.max # 0
    /\ class = "exact" => \A r \in Rows : rows[r] # Null /\ (rows[r] = 0 => ends.min = 0 \/ ends.max = 0)
    /\ class = "flagged" => ends.flag

\* A register whose ends say what its class promises can go on the stack.
LEMMA RegisterGood ==
    ASSUME NEW type \in {"int", "bool"}, NEW ends \in EndsType, NEW rows \in RowsType,
           NEW class \in Classes, Says(ends, rows, class)
    PROVE  Good(Operand("reg", type, ends, rows, class))
<1> DEFINE x == Operand("reg", type, ends, rows, class)
<1>1. /\ x.kind = "reg" /\ x.type = type /\ x.min = ends.min /\ x.max = ends.max /\ x.flag = ends.flag
      /\ x.rows = rows /\ x.class = class
  BY Zenon DEF Operand
<1>2. x \in Operands
  BY Zenon DEF Operand, Operands, EndsType, RowsType
<1>3. Leaf(x)
  BY <1>1, Zenon DEF Leaf
<1>4. Meaning(x)
  <2> HIDE DEF x
  <2> QED
    BY <1>1, Zenon DEF Meaning, Says, Inside, Between
<1> QED
  BY <1>2, <1>3, <1>4, Zenon DEF Good

\* The parts of an operand.
LEMMA GoodParts ==
    ASSUME NEW x, Good(x)
    PROVE  /\ x.min \in Int /\ x.max \in Int /\ x.flag \in BOOLEAN /\ x.class \in Classes
           /\ x.kind \in {"const", "col", "reg"} /\ x.type \in {"int", "bool", "string"}
           /\ x.rows \in RowsType /\ \A r \in Rows : x.rows[r] \in Int \cup {Null}
           /\ Says([min |-> x.min, max |-> x.max, flag |-> x.flag], x.rows, x.class)
           /\ Leaf(x)
<1>1. x \in Operands /\ Meaning(x) /\ Leaf(x)
  BY Zenon DEF Good
<1>2. x.rows \in RowsType
  BY <1>1, Zenon DEF Operands, RowsType
<1>3. /\ x.min \in Int /\ x.max \in Int /\ x.flag \in BOOLEAN /\ x.class \in Classes
      /\ x.kind \in {"const", "col", "reg"} /\ x.type \in {"int", "bool", "string"}
  BY <1>1, Zenon DEF Operands
<1>4. Says([min |-> x.min, max |-> x.max, flag |-> x.flag], x.rows, x.class)
  BY <1>1, Zenon DEF Meaning, Says, Between, Inside
<1> QED
  BY <1>1, <1>2, <1>3, <1>4, Zenon DEF RowsType

\* An operand whose class is sound has an end that is true when a row is.
LEMMA SoundTrue ==
    ASSUME NEW x, Good(x), x.class \in Sound, NEW r \in Rows, True(x.rows[r])
    PROVE  x.min # 0 \/ x.max # 0
<1>1. x.min \in Int /\ x.max \in Int /\ x.rows[r] \in Int
  BY GoodParts, Zenon DEF True
<1>2. CASE x.class \in Numeric
  <2>1. Between(x, x.rows[r])
    BY <1>2, Zenon DEF Good, Meaning, True
  <2> QED
    BY <2>1, <1>1 DEF Between, True
<1>3. CASE x.class \in {"exact", "may"}
  BY <1>3, Zenon DEF Good, Meaning
<1> QED
  BY <1>2, <1>3, Zenon DEF Sound, Numeric

-----------------------------------------------------------------------------
(***************************************************************************)
(* Comparisons                                                             *)
(***************************************************************************)
\* A value between two ends compares with a constant as one of them does.
LEMMA OrderAtEnds ==
    ASSUME NEW op \in OrderOps, NEW type, NEW v \in Int, NEW e \in Int, NEW f \in Int, NEW c \in Int,
           Inside(v, e, f)
    PROVE  /\ Compare(op, type, v, c) => Compare(op, type, e, c) \/ Compare(op, type, f, c)
           /\ ~Compare(op, type, v, c) => ~Compare(op, type, e, c) \/ ~Compare(op, type, f, c)
BY DEF OrderOps, Compare, Inside

\* No order holds between strings.
LEMMA NoStringOrder ==
    ASSUME NEW op \in OrderOps, NEW x, NEW y
    PROVE  ~Compare(op, "string", x, y)
BY Zenon DEF OrderOps, Compare

\* The register of a comparison is good when its operands are.
LEMMA FilterGood ==
    ASSUME NEW op \in FilterOps, NEW left, NEW right, Good(left), Good(right),
           (left.type = "string") = (right.type = "string")
    PROVE  LET ends == Filter(op, left, right) IN
           Good(Operand("reg", "bool", ends, FilterRows(op, left, right),
                        FilterClass(op, left, right, ends)))
<1> DEFINE ends == Filter(op, left, right)
           rows == FilterRows(op, left, right)
           class == FilterClass(op, left, right, ends)
<1>p. /\ left.min \in Int /\ left.max \in Int /\ left.flag \in BOOLEAN /\ Leaf(left)
      /\ right.min \in Int /\ right.max \in Int /\ right.flag \in BOOLEAN /\ Leaf(right)
      /\ left.kind \in {"const", "col", "reg"} /\ right.kind \in {"const", "col", "reg"}
      /\ \A r \in Rows : left.rows[r] \in Int \cup {Null}
      /\ \A r \in Rows : right.rows[r] \in Int \cup {Null}
  BY GoodParts, Zenon
<1>b. \A P \in BOOLEAN : Bit(P) \in {0, 1} /\ (Bit(P) = 1 <=> P) /\ (Bit(P) = 0 <=> ~P)
  BY DEF Bit
<1>1. ends \in EndsType
  BY <1>p DEF Filter, filterConstConst, FilterConstCol, FilterColConst, filterColCol, ConstMask, Ends,
              Bit, IsConst, IsPlain, EndsType
<1>2. rows \in RowsType
  BY DEF FilterRows, RowsType, Bit
<1>3. class \in Classes
  BY Zenon DEF FilterClass, Classes
<1>4. \A r \in Rows : /\ rows[r] \in {0, 1}
                      /\ rows[r] = 1 <=> /\ left.rows[r] # Null /\ right.rows[r] # Null
                                         /\ Compare(op, left.type, left.rows[r], right.rows[r])
  BY DEF FilterRows, Bit
<1>5. CASE IsConst(left) /\ IsConst(right)
  <2>1. class = "exact"
    BY <1>5, Zenon DEF FilterClass
  <2>2. /\ ends.min \in {0, 1} /\ ends.max = ends.min
        /\ ends.min = 1 <=> Compare(op, left.type, left.min, right.min)
    BY <1>5 DEF Filter, filterConstConst, Ends, Bit
  <2>3. \A r \in Rows : left.rows[r] = left.min /\ right.rows[r] = right.min
    BY <1>5, <1>p, Zenon DEF Leaf, IsConst
  <2>4. \A r \in Rows : rows[r] = ends.min
    BY <2>2, <2>3, <1>4, <1>p, NullAssumption, Zenon
  <2>5. Says(ends, rows, class)
    <3> HIDE DEF ends, rows, class
    <3> QED
      BY <2>1, <2>2, <2>4, <1>4, NullAssumption DEF Says, True, Numeric
  <2> QED
    BY <1>1, <1>2, <1>3, <2>5, RegisterGood, Zenon
<1>6. CASE ~IsConst(left) /\ IsConst(right)
  <2> DEFINE c == right.min
  <2>1. \A r \in Rows : right.rows[r] = c /\ c # Null
    BY <1>6, <1>p, NullAssumption, Zenon DEF Leaf, IsConst
  <2>2. ends = ConstMask(op, left.type, left, c)
    BY <1>6, Zenon DEF Filter, FilterColConst
  <2>3. ends.flag = left.flag
    BY <2>2 DEF ConstMask, Ends
  <2>4. class \in {"flagged", "exact", "may", "unknown"} /\ (class = "flagged" => ends.flag)
    BY <1>6, Zenon DEF FilterClass, IsPlain, IsConst
  <2>5. ASSUME class \in {"exact", "may"}, op \in OrderOps
        PROVE  Says(ends, rows, class)
    <3>1. /\ ends.min \in {0, 1} /\ (ends.min = 1 <=> Compare(op, left.type, left.min, c))
          /\ ends.max \in {0, 1} /\ (ends.max = 1 <=> Compare(op, left.type, left.max, c))
      BY <2>2, <2>5 DEF ConstMask, Ends, Bit
    <3>2. CASE left.type = "string"
      <4>1. ends.min = 0 /\ ends.max = 0 /\ \A r \in Rows : rows[r] = 0
        BY <3>1, <3>2, <2>5, <1>4, NoStringOrder
      <4> HIDE DEF ends, rows, class
      <4> QED
        BY <4>1, <2>4, NullAssumption DEF Says, True, Numeric
    <3>3. CASE left.type # "string"
      <4>1. left.class \in Numeric /\ (class = "exact" => ~WithNulls(left))
        BY <3>3, <2>5, <1>6, Zenon DEF FilterClass, IsPlain, IsConst, OrderOps
      <4>2. \A r \in Rows : left.rows[r] # Null => Inside(left.rows[r], left.min, left.max)
        BY <4>1, Zenon DEF Good, Meaning, Between, Inside
      <4>3. \A r \in Rows : rows[r] = 1 => ends.min = 1 \/ ends.max = 1
        BY <4>2, <3>1, <2>1, <2>5, <1>4, <1>p, OrderAtEnds
      <4>4. \A r \in Rows : rows[r] = 0 /\ left.rows[r] # Null => ends.min = 0 \/ ends.max = 0
        BY <4>2, <3>1, <2>1, <2>5, <1>4, <1>p, OrderAtEnds, Zenon
      <4>5. class = "exact" => \A r \in Rows : left.rows[r] # Null
        BY <4>1, Zenon DEF WithNulls
      <4> HIDE DEF ends, rows, class
      <4> QED
        BY <4>3, <4>4, <4>5, <3>1, <2>4, <2>5, <1>4, NullAssumption DEF Says, True, Numeric
    <3> QED
      BY <3>2, <3>3, Zenon
  <2>6. ASSUME class \in {"exact", "may"}, op \notin OrderOps
        PROVE  Says(ends, rows, class)
    <3>1. class = "may" /\ op = "=" /\ left.class = "ordered"
      BY <2>6, <1>6, Zenon DEF FilterClass, IsPlain, IsConst
    <3>2. /\ ends.min \in {0, 1} /\ ends.max = ends.min
          /\ ends.min = 1 <=> c >= left.min /\ c <= left.max
      BY <2>2, <2>6 DEF ConstMask, Ends, Bit
    <3>3. \A r \in Rows : left.rows[r] # Null => left.min <= left.rows[r] /\ left.rows[r] <= left.max
      BY <3>1, Zenon DEF Good, Meaning
    <3>4. \A r \in Rows : rows[r] = 1 => left.rows[r] # Null /\ left.rows[r] = c
      BY <3>1, <2>1, <1>4, Zenon DEF Compare
    <3>5. \A r \in Rows : rows[r] = 1 => ends.min = 1
      BY <3>2, <3>3, <3>4, Zenon
    <3> HIDE DEF ends, rows, class
    <3> QED
      BY <3>1, <3>2, <3>5, <1>4, Zenon DEF Says, True, Numeric
  <2>7. Says(ends, rows, class)
    <3>1. CASE class \in {"exact", "may"}
      BY <3>1, <2>5, <2>6, Zenon
    <3>2. CASE class \in {"flagged", "unknown"}
      <4> HIDE DEF ends, rows, class
      <4> QED
        BY <3>2, <2>4, Zenon DEF Says, Numeric
    <3> QED
      BY <3>1, <3>2, <2>4, Zenon
  <2> QED
    BY <1>1, <1>2, <1>3, <2>7, RegisterGood, Zenon
<1>7. CASE IsConst(left) /\ ~IsConst(right)
  <2> DEFINE c == left.min
  <2>1. \A r \in Rows : left.rows[r] = c /\ c # Null
    BY <1>7, <1>p, NullAssumption, Zenon DEF Leaf, IsConst
  <2>2. ends = ConstMask(op, right.type, right, c)
    BY <1>7, Zenon DEF Filter, FilterConstCol
  <2>3. class \in {"flagged", "exact", "may", "unknown"} /\ (class = "flagged" => ends.flag)
    BY <1>7, Zenon DEF FilterClass, IsPlain, IsConst
  <2>4. ASSUME class = "exact"
        PROVE  Says(ends, rows, class)
    <3>1. left.type = "string" /\ right.type = "string" /\ op \in OrderOps
      BY <2>4, <1>7, Zenon DEF FilterClass, IsPlain, IsConst
    <3>2. ends.min = 0 /\ ends.max = 0
      BY <3>1, <2>2, NoStringOrder DEF ConstMask, Ends, Bit
    <3>3. \A r \in Rows : rows[r] = 0
      BY <3>1, <1>4, NoStringOrder, Zenon
    <3> HIDE DEF ends, rows, class
    <3> QED
      BY <3>2, <3>3, <2>4, NullAssumption DEF Says, True, Numeric
  <2>5. ASSUME class = "may"
        PROVE  Says(ends, rows, class)
    <3>1. op = "=" /\ right.class = "ordered"
      BY <2>5, <1>7, Zenon DEF FilterClass, IsPlain, IsConst
    <3>2. /\ ends.min \in {0, 1} /\ ends.max = ends.min
          /\ ends.min = 1 <=> c >= right.min /\ c <= right.max
      BY <2>2, <3>1 DEF ConstMask, Ends, Bit, OrderOps
    <3>3. \A r \in Rows : right.rows[r] # Null => right.min <= right.rows[r] /\ right.rows[r] <= right.max
      BY <3>1, Zenon DEF Good, Meaning
    <3>4. \A r \in Rows : rows[r] = 1 => right.rows[r] # Null /\ right.rows[r] = c
      BY <3>1, <2>1, <1>4, Zenon DEF Compare
    <3>5. \A r \in Rows : rows[r] = 1 => ends.min = 1
      BY <3>2, <3>3, <3>4, Zenon
    <3> HIDE DEF ends, rows, class
    <3> QED
      BY <2>5, <3>2, <3>5, <1>4, Zenon DEF Says, True, Numeric
  <2>6. Says(ends, rows, class)
    <3>1. CASE class \in {"flagged", "unknown"}
      <4> HIDE DEF ends, rows, class
      <4> QED
        BY <3>1, <2>3, Zenon DEF Says, Numeric
    <3> QED
      BY <3>1, <2>3, <2>4, <2>5, Zenon
  <2> QED
    BY <1>1, <1>2, <1>3, <2>6, RegisterGood, Zenon
<1>8. CASE ~IsConst(left) /\ ~IsConst(right)
  <2>1. ends = filterColCol(op, left, right)
    BY <1>8, Zenon DEF Filter
  <2>2. CASE IsPlain(left) /\ IsPlain(right)
    <3>1. class = "may" /\ ends.min = 1
      BY <1>8, <2>1, <2>2 DEF FilterClass, filterColCol, Ends
    <3>2. Says(ends, rows, class)
      <4> HIDE DEF ends, rows, class
      <4> QED
        BY <3>1 DEF Says, Numeric
    <3> QED
      BY <1>1, <1>2, <1>3, <3>2, RegisterGood, Zenon
  <2>3. CASE ~(IsPlain(left) /\ IsPlain(right))
    <3>1. class \in {"flagged", "exact", "unknown"} /\ (class = "flagged" => ends.flag)
      BY <1>8, <2>3, Zenon DEF FilterClass
    <3>2. ASSUME class = "exact"
          PROVE  ends.min = 0 /\ ends.max = 0 /\ \A r \in Rows : rows[r] = 0
      <4>1. left.type = "string" /\ op \in OrderOps
        BY <3>2, <2>3, <1>8, Zenon DEF FilterClass
      <4>2. ends.min = 0 /\ ends.max = 0
        BY <4>1, <2>1, <2>3, NoStringOrder DEF filterColCol, Ends, Bit
      <4>3. \A r \in Rows : rows[r] = 0
        BY <4>1, <1>4, NoStringOrder, Zenon
      <4> QED
        BY <4>2, <4>3, Zenon
    <3>3. Says(ends, rows, class)
      <4> HIDE DEF ends, rows, class
      <4> QED
        BY <3>1, <3>2, NullAssumption DEF Says, True, Numeric
    <3> QED
      BY <1>1, <1>2, <1>3, <3>3, RegisterGood, Zenon
  <2> QED
    BY <2>2, <2>3, Zenon
<1> QED
  BY <1>5, <1>6, <1>7, <1>8, Zenon

-----------------------------------------------------------------------------
(***************************************************************************)
(* AND, OR, NOT and IS NULL                                                *)
(***************************************************************************)
\* The register of AND or OR is good when its operands are.
LEMMA LogicalGood ==
    ASSUME NEW op \in LogicalOps, NEW left, NEW right, Good(left), Good(right)
    PROVE  LET ends == Logical(op, left, right) IN
           Good(Operand("reg", "bool", ends, LogicalRows(op, left, right),
                        LogicalClass(op, left, right, ends)))
<1> DEFINE ends == Logical(op, left, right)
           rows == LogicalRows(op, left, right)
           class == LogicalClass(op, left, right, ends)
<1>p. /\ left.min \in Int /\ left.max \in Int /\ left.flag \in BOOLEAN /\ Leaf(left)
      /\ right.min \in Int /\ right.max \in Int /\ right.flag \in BOOLEAN /\ Leaf(right)
      /\ left.kind \in {"const", "col", "reg"} /\ right.kind \in {"const", "col", "reg"}
  BY GoodParts, Zenon
<1>1. ends \in EndsType
  BY <1>p DEF Logical, LogicalConstConst, LogicalConstCol, LogicalColConst, LogicalColCol, Ends,
              Bit, IsConst, IsPlain, EndsType
<1>2. rows \in RowsType
  BY DEF LogicalRows, RowsType, Bit
<1>3. class \in Classes
  BY Zenon DEF LogicalClass, Classes
<1>4. \A r \in Rows : /\ rows[r] \in {0, 1}
                      /\ rows[r] = 1 <=> /\ left.rows[r] # Null /\ right.rows[r] # Null
                                         /\ Truth(op, left.rows[r], right.rows[r])
  BY DEF LogicalRows, Bit
<1>5. CASE IsConst(left) /\ IsConst(right)
  <2>1. class = "exact"
    BY <1>5, Zenon DEF LogicalClass
  <2>2. /\ ends.min \in {0, 1} /\ ends.max = ends.min
        /\ ends.min = 1 <=> Truth(op, left.min, right.min)
    BY <1>5 DEF Logical, LogicalConstConst, Ends, Bit
  <2>3. \A r \in Rows : left.rows[r] = left.min /\ right.rows[r] = right.min
    BY <1>5, <1>p, Zenon DEF Leaf, IsConst
  <2>4. \A r \in Rows : rows[r] = ends.min
    BY <2>2, <2>3, <1>4, <1>p, NullAssumption, Zenon
  <2>5. Says(ends, rows, class)
    <3> HIDE DEF ends, rows, class
    <3> QED
      BY <2>1, <2>2, <2>4, <1>4, NullAssumption DEF Says, True, Numeric
  <2> QED
    BY <1>1, <1>2, <1>3, <2>5, RegisterGood, Zenon
<1>6. ASSUME NEW x, NEW c, Good(x), c \in Int,
             ends.min \in {0, 1}, ends.min = 1 <=> Truth(op, x.min, c),
             ends.max \in {0, 1}, ends.max = 1 <=> Truth(op, x.max, c),
             \A r \in Rows : rows[r] = 1 <=> x.rows[r] # Null /\ Truth(op, x.rows[r], c),
             class = IF x.class = "exact" THEN "exact" ELSE IF x.class \in Sound THEN "may" ELSE "unknown"
      PROVE  Says(ends, rows, class)
  <2>1. x.class \in Sound => \A r \in Rows : rows[r] = 1 => ends.min = 1 \/ ends.max = 1
    BY <1>6, SoundTrue, Zenon DEF Truth, True, LogicalOps
  <2>2. x.class = "exact" => \A r \in Rows : x.rows[r] # Null /\ (x.rows[r] = 0 => x.min = 0 \/ x.max = 0)
    BY <1>6, Zenon DEF Good, Meaning
  <2>3. x.class = "exact" => \A r \in Rows : rows[r] = 0 => ends.min = 0 \/ ends.max = 0
    BY <2>2, <1>4, <1>6, Zenon DEF Truth, LogicalOps
  <2> HIDE DEF ends, rows, class
  <2> QED
    BY <2>1, <2>3, <1>4, <1>6, NullAssumption DEF Says, True, Numeric, Sound
<1>7. CASE ~IsConst(left) /\ IsConst(right)
  <2>1. /\ ends.min \in {0, 1} /\ (ends.min = 1 <=> Truth(op, left.min, right.min))
        /\ ends.max \in {0, 1} /\ (ends.max = 1 <=> Truth(op, left.max, right.min))
    BY <1>7 DEF Logical, LogicalColConst, Ends, Bit
  <2>2. \A r \in Rows : rows[r] = 1 <=> left.rows[r] # Null /\ Truth(op, left.rows[r], right.min)
    BY <1>7, <1>4, <1>p, NullAssumption, Zenon DEF Leaf, IsConst
  <2>3. class = IF left.class = "exact" THEN "exact" ELSE IF left.class \in Sound THEN "may" ELSE "unknown"
    BY <1>7, Zenon DEF LogicalClass
  <2>4. Says(ends, rows, class)
    <3> HIDE DEF ends, rows, class
    <3> QED
      BY <2>1, <2>2, <2>3, <1>p, <1>6, Zenon
  <2> QED
    BY <1>1, <1>2, <1>3, <2>4, RegisterGood, Zenon
<1>8. CASE IsConst(left) /\ ~IsConst(right)
  <2>0. \A x, y : Truth(op, x, y) <=> Truth(op, y, x)
    BY Zenon DEF Truth
  <2>1. /\ ends.min \in {0, 1} /\ (ends.min = 1 <=> Truth(op, right.min, left.min))
        /\ ends.max \in {0, 1} /\ (ends.max = 1 <=> Truth(op, right.max, left.min))
    BY <1>8, <2>0 DEF Logical, LogicalConstCol, Ends, Bit
  <2>2. \A r \in Rows : rows[r] = 1 <=> right.rows[r] # Null /\ Truth(op, right.rows[r], left.min)
    BY <1>8, <1>4, <1>p, <2>0, NullAssumption, Zenon DEF Leaf, IsConst
  <2>3. class = IF right.class = "exact" THEN "exact" ELSE IF right.class \in Sound THEN "may" ELSE "unknown"
    BY <1>8, Zenon DEF LogicalClass
  <2>4. Says(ends, rows, class)
    <3> HIDE DEF ends, rows, class
    <3> QED
      BY <2>1, <2>2, <2>3, <1>p, <1>6, Zenon
  <2> QED
    BY <1>1, <1>2, <1>3, <2>4, RegisterGood, Zenon
<1>9. CASE ~IsConst(left) /\ ~IsConst(right)
  <2>1. ends = LogicalColCol(op, left, right)
    BY <1>9, Zenon DEF Logical
  <2>2. class \in {"may", "flagged", "unknown"} /\ (class = "flagged" => ends.flag)
    BY <1>9, Zenon DEF LogicalClass
  <2>3. ASSUME class = "may", NEW r \in Rows, rows[r] = 1
        PROVE  ends.min # 0 \/ ends.max # 0
    <3>1. CASE IsPlain(left) /\ IsPlain(right)
      BY <3>1, <2>1 DEF LogicalColCol, Ends
    <3>2. CASE ~(IsPlain(left) /\ IsPlain(right))
      <4>1. left.class \in Sound /\ right.class \in Sound /\ (op = "OR" \/ ~(IsPlain(left) \/ IsPlain(right)))
        BY <3>2, <2>3, <1>9, Zenon DEF LogicalClass
      <4>2. Truth(op, left.rows[r], right.rows[r]) /\ left.rows[r] # Null /\ right.rows[r] # Null
        BY <2>3, <1>4, Zenon
      <4>3. /\ left.rows[r] # 0 => left.min # 0 \/ left.max # 0
            /\ right.rows[r] # 0 => right.min # 0 \/ right.max # 0
        BY <4>1, <4>2, SoundTrue, Zenon DEF True
      <4>4. CASE IsPlain(left) \/ IsPlain(right)
        <5>1. op = "OR"
          BY <4>1, <4>4, Zenon
        <5>2. /\ ends.min = Bit(Truth("OR", left.min, right.min))
              /\ ends.max = Bit(Truth("OR", left.max, right.max))
          BY <5>1, <4>4, <3>2, <2>1 DEF LogicalColCol, Ends
        <5> HIDE DEF ends
        <5> QED
          BY <5>1, <5>2, <4>2, <4>3 DEF Truth, Bit
      <4>5. CASE ~(IsPlain(left) \/ IsPlain(right))
        <5>1. ends.min = Bit(Truth(op, Bit(Truth("OR", left.min, left.max)),
                                       Bit(Truth("OR", right.min, right.max))))
          BY <4>5, <2>1 DEF LogicalColCol, Ends
        <5> HIDE DEF ends
        <5> QED
          BY <5>1, <4>2, <4>3 DEF Truth, Bit
      <4> QED
        BY <4>4, <4>5, Zenon
    <3> QED
      BY <3>1, <3>2, Zenon
  <2>4. Says(ends, rows, class)
    <3> HIDE DEF ends, rows, class
    <3> QED
      BY <2>2, <2>3, <1>4, Zenon DEF Says, True, Numeric
  <2> QED
    BY <1>1, <1>2, <1>3, <2>4, RegisterGood, Zenon
<1> QED
  BY <1>5, <1>7, <1>8, <1>9, Zenon

\* The register of NOT is good when its operand is.
LEMMA NotGood ==
    ASSUME NEW x, Good(x)
    PROVE  Good(Operand("reg", "bool", LogicalNot(x), LogicalNotRows(x), NotClass(x)))
<1> DEFINE ends == LogicalNot(x)
           rows == LogicalNotRows(x)
           class == NotClass(x)
<1>p. x.min \in Int /\ x.max \in Int /\ x.flag \in BOOLEAN /\ Leaf(x) /\ Meaning(x)
  BY GoodParts, Zenon DEF Good
<1>1. ends \in EndsType /\ rows \in RowsType /\ class \in Classes
  BY <1>p DEF LogicalNot, Ends, Bit, EndsType, LogicalNotRows, RowsType, NotClass, Classes
<1>2. /\ ends.min \in {0, 1} /\ (ends.min = 1 <=> x.min = 0)
      /\ ends.max \in {0, 1} /\ (ends.max = 1 <=> x.max = 0)
      /\ ends.flag = x.flag
  BY DEF LogicalNot, Ends, Bit
<1>3. \A r \in Rows : rows[r] \in {0, 1} /\ (rows[r] = 1 <=> x.rows[r] # Null /\ x.rows[r] = 0)
  BY DEF LogicalNotRows, Bit
<1>4. class \in {"exact", "flagged", "unknown"} /\ (class = "flagged" => ends.flag)
  BY <1>2, Zenon DEF NotClass
<1>5. ASSUME class = "exact", NEW r \in Rows
      PROVE  /\ rows[r] = 1 => ends.min = 1 \/ ends.max = 1
             /\ rows[r] = 0 => ends.min = 0 \/ ends.max = 0
  <2>1. CASE IsConst(x)
    BY <2>1, <1>p, <1>2, <1>3, NullAssumption, Zenon DEF Leaf, IsConst
  <2>2. CASE x.class = "exact"
    BY <2>2, <1>p, <1>2, <1>3, Zenon DEF Meaning, True
  <2> QED
    BY <2>1, <2>2, <1>5, Zenon DEF NotClass
<1>6. Says(ends, rows, class)
  <2> HIDE DEF ends, rows, class
  <2> QED
    BY <1>2, <1>3, <1>4, <1>5, NullAssumption DEF Says, True, Numeric
<1> QED
  BY <1>1, <1>6, RegisterGood, Zenon

\* The register of IS NULL and IS NOT NULL is good: both ends are 1.
LEMMA NullGood ==
    ASSUME NEW op, NEW x
    PROVE  Good(Operand("reg", "bool", NullCol, NullRows(op, x), "may"))
<1>1. NullCol \in EndsType /\ NullCol.min = 1
  BY DEF NullCol, Ends, EndsType
<1>2. NullRows(op, x) \in RowsType
  BY DEF NullRows, RowsType, Bit
<1>3. Says(NullCol, NullRows(op, x), "may")
  BY <1>1 DEF Says, Numeric
<1> QED
  BY <1>1, <1>2, <1>3, RegisterGood, Zenon DEF Classes

\* So is the register of CONTAINS, whatever rows it holds for.
LEMMA ContainsGood ==
    ASSUME NEW rows
    PROVE  Good(Operand("reg", "bool", Contains, [r \in Rows |-> Bit(r \in rows)], "may"))
<1> DEFINE values == [r \in Rows |-> Bit(r \in rows)]
<1>1. Contains \in EndsType /\ Contains.min = 1
  BY DEF Contains, Ends, EndsType
<1>2. values \in RowsType
  BY DEF RowsType, Bit
<1> HIDE DEF values
<1>3. Says(Contains, values, "may")
  BY <1>1 DEF Says, Numeric
<1>4. Good(Operand("reg", "bool", Contains, values, "may"))
  BY <1>1, <1>2, <1>3, RegisterGood, Zenon DEF Classes
<1> QED
  BY <1>4, Zenon DEF values

-----------------------------------------------------------------------------
(***************************************************************************)
(* Arithmetic registers                                                    *)
(***************************************************************************)
\* The register of an arithmetic operation is good when its operands are.
LEMMA ArithmeticGood ==
    ASSUME NEW op \in ArithmeticOps, NEW left, NEW right, Good(left), Good(right),
           CanCompute(op, left, right)
    PROVE  LET ends == Arithmetic(op, left, right) IN
           Good(Operand("reg", "int", ends, ArithmeticRows(op, left, right),
                        ArithmeticClass(op, left, right, ends)))
<1> DEFINE ends == Arithmetic(op, left, right)
           rows == ArithmeticRows(op, left, right)
           class == ArithmeticClass(op, left, right, ends)
<1>p. /\ left.min \in Int /\ left.max \in Int /\ left.flag \in BOOLEAN /\ Leaf(left)
      /\ right.min \in Int /\ right.max \in Int /\ right.flag \in BOOLEAN /\ Leaf(right)
      /\ left.kind \in {"const", "col", "reg"} /\ right.kind \in {"const", "col", "reg"}
      /\ \A r \in Rows : left.rows[r] \in Int \cup {Null}
      /\ \A r \in Rows : right.rows[r] \in Int \cup {Null}
  BY GoodParts, Zenon
<1>d. /\ Defined(op, right.min) /\ Defined(op, right.max)
      /\ \A r \in Rows : right.rows[r] # Null /\ Checked(op, left.rows[r], right.rows[r])
                          => Defined(op, right.rows[r])
  BY Zenon DEF CanCompute, Checked, Defined
<1>t. \A x, y \in Int : Defined(op, y) => Exact(op, x, y) \in Int /\ Apply(op, x, y) \in Int
  BY ExactType, Zenon
<1>m. isMonotonous(op) \in BOOLEAN
  BY DEF isMonotonous
<1>1. ends \in EndsType
  <2>1. /\ Apply(op, left.min, right.min) \in Int /\ Apply(op, left.max, right.max) \in Int
        /\ Apply(op, left.max, right.min) \in Int /\ Apply(op, left.min, right.max) \in Int
    BY <1>p, <1>d, <1>t, Zenon
  <2> QED
    BY <2>1, <1>p, <1>m DEF Arithmetic, arithmeticConstConst, arithmeticConstCol, ArithmeticColConst,
                            arithmeticColCol, Ends, IsConst, IsPlain, EndsType
<1>2. \A r \in Rows : /\ rows[r] \in Int \cup {Null}
                      /\ rows[r] # Null => /\ left.rows[r] \in Int /\ right.rows[r] \in Int
                                           /\ rows[r] = Apply(op, left.rows[r], right.rows[r])
  BY <1>p, <1>d, <1>t, Zenon DEF ArithmeticRows
<1>3. rows \in RowsType
  BY <1>2, Zenon DEF ArithmeticRows, RowsType
<1>4. class \in {"ordered", "between", "flagged", "unknown"}
  BY Zenon DEF ArithmeticClass, Kept, Reversed, Numeric
<1>5. class \in Classes
  BY <1>4, Zenon DEF Classes
<1>6. class = "flagged" => ends.flag
  BY Zenon DEF ArithmeticClass, Kept, Reversed, Numeric
<1>7. ASSUME NEW r \in Rows, rows[r] # Null, class \in Numeric
      PROVE  /\ Inside(rows[r], ends.min, ends.max)
             /\ class = "ordered" => ends.min <= rows[r] /\ rows[r] <= ends.max
  <2>1. CASE IsConst(left) /\ IsConst(right)
    <3>1. left.rows[r] = left.min /\ right.rows[r] = right.min
      BY <2>1, <1>p, Zenon DEF Leaf, IsConst
    <3>2. ends.min = rows[r] /\ ends.max = rows[r]
      BY <3>1, <2>1, <1>2, <1>7, Zenon DEF Arithmetic, arithmeticConstConst, Ends
    <3>3. rows[r] \in Int
      BY <1>2, <1>7, Zenon
    <3> HIDE DEF ends, rows, class
    <3> QED
      BY <3>2, <3>3 DEF Inside
  <2>2. CASE ~IsConst(left) /\ IsConst(right)
    <3> DEFINE c == right.min
               v == left.rows[r]
    <3>1. right.rows[r] = c /\ right.max = c
      BY <2>2, <1>p, Zenon DEF Leaf, IsConst
    <3>2. ends.min = Apply(op, left.min, c) /\ ends.max = Apply(op, left.max, c)
      BY <2>2, Zenon DEF Arithmetic, ArithmeticColConst, Ends
    <3>3. /\ NoOverflow(op, left, right) /\ op # "%" /\ isMonotonous(op)
          /\ class = IF op \in {"+", "-"} \/ c >= 0 THEN Kept(left.class) ELSE Reversed(left.class)
      BY <2>2, <1>7, Zenon DEF ArithmeticClass, Numeric, Arithmetic, ArithmeticColConst, Ends
    <3>4. left.class \in Numeric /\ (class = "ordered" => left.class = "ordered" /\ (op \in {"+", "-"} \/ c >= 0))
      BY <3>3, <1>7, Zenon DEF Kept, Reversed, Numeric
    <3>5. v \in Int /\ Inside(v, left.min, left.max)
      BY <3>4, <1>2, <1>7, NullAssumption, Zenon DEF Good, Meaning, Between, Inside
    <3>6. class = "ordered" => left.min <= v /\ v <= left.max
      BY <3>4, <3>5, NullAssumption, Zenon DEF Good, Meaning
    <3>7. /\ KeepsRight(op, c) \/ ReversesRight(op, c)
          /\ class = "ordered" => KeepsRight(op, c)
      BY <3>3, <3>4, <1>p DEF KeepsRight, ReversesRight, isMonotonous, ArithmeticOps
    <3>8. InRange(Exact(op, left.min, c), Lowest, Highest) /\ InRange(Exact(op, left.max, c), Lowest, Highest)
      BY <3>1, <3>3, Zenon DEF NoOverflow
    <3>9. rows[r] = Apply(op, v, c)
      BY <3>1, <1>2, <1>7, Zenon
    <3> HIDE DEF ends, rows, class
    <3>10. Inside(Apply(op, v, c), Apply(op, left.min, c), Apply(op, left.max, c))
      BY <3>5, <3>7, <3>8, <1>d, <1>p, ConstantBetween, Zenon
    <3>11. class = "ordered" => /\ Apply(op, left.min, c) <= Apply(op, v, c)
                                /\ Apply(op, v, c) <= Apply(op, left.max, c)
      BY <3>5, <3>6, <3>7, <3>8, <1>d, <1>p, ConstantBetween, Zenon
    <3> QED
      BY <3>2, <3>9, <3>10, <3>11, Zenon
  <2>3. CASE IsConst(left) /\ ~IsConst(right)
    <3> DEFINE c == left.min
               v == right.rows[r]
    <3>1. left.rows[r] = c /\ left.max = c
      BY <2>3, <1>p, Zenon DEF Leaf, IsConst
    <3>2. ends.min = Apply(op, c, right.min) /\ ends.max = Apply(op, c, right.max)
      BY <2>3, Zenon DEF Arithmetic, arithmeticConstCol, Ends
    <3>3. /\ NoOverflow(op, left, right)
          /\ class = IF op = "+" \/ (op = "*" /\ c >= 0) THEN Kept(right.class)
                     ELSE IF op \in {"-", "*"} THEN Reversed(right.class) ELSE "unknown"
      BY <2>3, <1>7, Zenon DEF ArithmeticClass, Numeric
    <3>4. right.class \in Numeric /\ op \in {"+", "-", "*"}
          /\ (class = "ordered" => right.class = "ordered" /\ (op = "+" \/ (op = "*" /\ c >= 0)))
      BY <3>3, <1>7, Zenon DEF Kept, Reversed, Numeric
    <3>5. v \in Int /\ Inside(v, right.min, right.max)
      BY <3>4, <1>2, <1>7, NullAssumption, Zenon DEF Good, Meaning, Between, Inside
    <3>6. class = "ordered" => right.min <= v /\ v <= right.max
      BY <3>4, <3>5, NullAssumption, Zenon DEF Good, Meaning
    <3>7. /\ KeepsLeft(op, c) \/ ReversesLeft(op, c)
          /\ class = "ordered" => KeepsLeft(op, c)
      BY <3>3, <3>4, <1>p DEF KeepsLeft, ReversesLeft
    <3>8. InRange(Exact(op, c, right.min), Lowest, Highest) /\ InRange(Exact(op, c, right.max), Lowest, Highest)
      BY <3>1, <3>3, Zenon DEF NoOverflow
    <3>9. rows[r] = Apply(op, c, v)
      BY <3>1, <1>2, <1>7, Zenon
    <3> HIDE DEF ends, rows, class
    <3>10. Inside(Apply(op, c, v), Apply(op, c, right.min), Apply(op, c, right.max))
      BY <3>5, <3>7, <3>8, <1>p, ConstantBetween, Zenon
    <3>11. class = "ordered" => /\ Apply(op, c, right.min) <= Apply(op, c, v)
                                /\ Apply(op, c, v) <= Apply(op, c, right.max)
      BY <3>5, <3>6, <3>7, <3>8, <1>p, ConstantBetween, Zenon
    <3> QED
      BY <3>2, <3>9, <3>10, <3>11, Zenon
  <2>4. CASE ~IsConst(left) /\ ~IsConst(right)
    <3> DEFINE u == left.rows[r]
               v == right.rows[r]
    <3>1. /\ ~ends.flag /\ NoOverflow(op, left, right)
          /\ op = "+" /\ left.class = "ordered" /\ right.class = "ordered" /\ class = "ordered"
      BY <2>4, <1>7, Zenon DEF ArithmeticClass, Numeric
    <3>2. ends = arithmeticColCol(op, left, right)
      BY <2>4, Zenon DEF Arithmetic
    <3>3. ends.min = Apply(op, left.min, right.min) /\ ends.max = Apply(op, left.max, right.max)
      BY <3>1, <3>2 DEF arithmeticColCol, Ends
    <3>4. u \in Int /\ v \in Int /\ u # Null /\ v # Null
      BY <1>2, <1>7, NullAssumption, Zenon
    <3>5. left.min <= u /\ u <= left.max /\ right.min <= v /\ v <= right.max
      BY <3>1, <3>4, Zenon DEF Good, Meaning
    <3>6. /\ Exact(op, left.min, right.min) = left.min + right.min
          /\ Exact(op, left.max, right.max) = left.max + right.max /\ Exact(op, u, v) = u + v
      BY <3>1, Zenon DEF Exact
    <3>7. /\ left.min + right.min <= u + v /\ u + v <= left.max + right.max
          /\ Lowest <= left.min + right.min /\ left.min + right.min <= Highest
          /\ Lowest <= left.max + right.max /\ left.max + right.max <= Highest
      BY <3>1, <3>4, <3>5, <3>6, <1>p DEF NoOverflow, InRange
    <3>8. \A z \in Int : Lowest <= z /\ z <= Highest => Wrap(z, Lowest, Highest) = z
      BY WrapRange, RangeAssumption
    <3>9. /\ Apply(op, left.min, right.min) = left.min + right.min
          /\ Apply(op, left.max, right.max) = left.max + right.max /\ Apply(op, u, v) = u + v
      BY <3>4, <3>6, <3>7, <3>8, <1>p, RangeAssumption DEF Apply
    <3>10. rows[r] = Apply(op, u, v)
      BY <1>2, <1>7, Zenon
    <3> HIDE DEF ends, rows, class
    <3> QED
      BY <3>3, <3>7, <3>9, <3>10, Zenon DEF Inside
  <2> QED
    BY <2>1, <2>2, <2>3, <2>4, Zenon
<1>8. Says(ends, rows, class)
  <2> HIDE DEF ends, rows, class
  <2> QED
    BY <1>4, <1>6, <1>7, Zenon DEF Says, Numeric
<1> QED
  BY <1>1, <1>3, <1>5, <1>8, RegisterGood, Zenon

\* The register of a unary operation is good when its operand is.
LEMMA ArithmeticUnaryGood ==
    ASSUME NEW op \in UnaryOps, NEW x, Good(x)
    PROVE  LET ends == ArithmeticUnary(op, x) IN
           Good(Operand("reg", "int", ends, ArithmeticUnaryRows(op, x), ArithmeticUnaryClass(x, ends)))
<1> DEFINE ends == ArithmeticUnary(op, x)
           rows == ArithmeticUnaryRows(op, x)
           class == ArithmeticUnaryClass(x, ends)
<1>p. /\ x.min \in Int /\ x.max \in Int /\ x.flag \in BOOLEAN /\ Meaning(x)
      /\ \A r \in Rows : x.rows[r] \in Int \cup {Null}
  BY GoodParts, Zenon DEF Good
<1>w. \A z \in Int : /\ Wrap(z, Lowest, Highest) \in Int
                     /\ Lowest <= z /\ z <= Highest => Wrap(z, Lowest, Highest) = z
  BY WrapRange, RangeAssumption
<1>t. \A z \in Int : ApplyUnary(op, z) \in Int
  BY <1>w DEF ApplyUnary
<1>1. ends \in EndsType /\ rows \in RowsType
  BY <1>p, <1>t, Zenon DEF ArithmeticUnary, Ends, EndsType, isMonotonous, ArithmeticUnaryRows, RowsType
<1>2. class \in {"between", "flagged", "unknown"} /\ (class = "flagged" => ends.flag)
  BY Zenon DEF ArithmeticUnaryClass, Reversed
<1>3. ASSUME class = "between", NEW r \in Rows, rows[r] # Null
      PROVE  Inside(rows[r], ends.min, ends.max)
  <2>1. /\ x.class \in Numeric /\ ~ends.flag
        /\ InRange(-x.min, Lowest, Highest) /\ InRange(-x.max, Lowest, Highest)
    BY <1>3, Zenon DEF ArithmeticUnaryClass, Reversed
  <2>2. op = "minus"
    BY <2>1, Zenon DEF ArithmeticUnary, Ends, isMonotonous, UnaryOps
  <2>3. x.rows[r] \in Int /\ x.rows[r] # Null /\ rows[r] = Wrap(-x.rows[r], Lowest, Highest)
    BY <2>2, <1>3, <1>p, NullAssumption, Zenon DEF ArithmeticUnaryRows, ApplyUnary
  <2>4. Between(x, x.rows[r])
    BY <2>1, <2>3, <1>p, Zenon DEF Meaning
  <2>5. ends.min = Wrap(-x.min, Lowest, Highest) /\ ends.max = Wrap(-x.max, Lowest, Highest)
    BY <2>2, Zenon DEF ArithmeticUnary, Ends, ApplyUnary
  <2>6. Lowest <= -x.rows[r] /\ -x.rows[r] <= Highest
    BY <2>1, <2>3, <2>4, <1>p, RangeAssumption DEF Between, InRange
  <2>7. ends.min = -x.min /\ ends.max = -x.max /\ rows[r] = -x.rows[r]
    BY <2>1, <2>3, <2>5, <2>6, <1>w, <1>p DEF InRange
  <2> HIDE DEF ends, rows, class
  <2> QED
    BY <2>3, <2>4, <2>7, <1>p DEF Between, Inside
<1>4. Says(ends, rows, class)
  <2> HIDE DEF ends, rows, class
  <2> QED
    BY <1>2, <1>3, Zenon DEF Says, Numeric
<1>5. class \in Classes
  BY <1>2, Zenon DEF Classes
<1> QED
  BY <1>1, <1>4, <1>5, RegisterGood, Zenon

\* The register of a cast is good when its operand is.
LEMMA CastGood ==
    ASSUME NEW x, Good(x)
    PROVE  Good(Operand("reg", "int", CastNumeric(x), CastRows(x), CastClass(x)))
<1> DEFINE ends == CastNumeric(x)
           rows == CastRows(x)
           class == CastClass(x)
<1>p. /\ x.min \in Int /\ x.max \in Int /\ x.flag \in BOOLEAN /\ Meaning(x)
      /\ \A r \in Rows : x.rows[r] \in Int \cup {Null}
  BY GoodParts, Zenon DEF Good
<1>w. \A z \in Int : /\ Narrow(z) \in Int
                     /\ InRange(z, NarrowLowest, NarrowHighest) => Narrow(z) = z
  <2>1. NarrowLowest \in Int /\ NarrowHighest \in Int /\ NarrowLowest <= NarrowHighest
    BY RangeAssumption
  <2> QED
    BY <2>1, WrapRange, Zenon DEF Narrow, InRange
<1>1. ends \in EndsType /\ rows \in RowsType
  BY <1>p, <1>w, Zenon DEF CastNumeric, Ends, EndsType, CastRows, RowsType
<1>2. class \in {"ordered", "between", "flagged", "unknown"} /\ (class = "flagged" => ends.flag)
  BY Zenon DEF CastClass, Kept, Numeric, CastNumeric, Ends
<1>3. ASSUME class \in Numeric, NEW r \in Rows, rows[r] # Null
      PROVE  /\ Inside(rows[r], ends.min, ends.max)
             /\ class = "ordered" => ends.min <= rows[r] /\ rows[r] <= ends.max
  <2>1. /\ x.class = class
        /\ InRange(x.min, NarrowLowest, NarrowHighest) /\ InRange(x.max, NarrowLowest, NarrowHighest)
    BY <1>3, Zenon DEF CastClass, Kept, Numeric
  <2>2. x.rows[r] \in Int /\ x.rows[r] # Null /\ rows[r] = Narrow(x.rows[r])
    BY <1>3, <1>p, NullAssumption, Zenon DEF CastRows
  <2>3. Between(x, x.rows[r]) /\ (class = "ordered" => x.min <= x.rows[r] /\ x.rows[r] <= x.max)
    BY <2>1, <2>2, <1>3, <1>p, Zenon DEF Meaning
  <2>4. InRange(x.rows[r], NarrowLowest, NarrowHighest)
    <3>1. x.min \in Int /\ x.max \in Int /\ x.rows[r] \in Int /\ NarrowLowest \in Int /\ NarrowHighest \in Int
      BY <1>p, <2>2, RangeAssumption
    <3>2. \/ x.min <= x.rows[r] /\ x.rows[r] <= x.max
          \/ x.max <= x.rows[r] /\ x.rows[r] <= x.min
      BY <2>3, Zenon DEF Between
    <3>3. /\ NarrowLowest <= x.min /\ x.min <= NarrowHighest
          /\ NarrowLowest <= x.max /\ x.max <= NarrowHighest
      BY <2>1, Zenon DEF InRange
    <3> QED  BY <3>1, <3>2, <3>3 DEF InRange
  <2>5. ends.min = x.min /\ ends.max = x.max /\ rows[r] = x.rows[r]
    BY <2>1, <2>2, <2>4, <1>w, <1>p, Zenon DEF CastNumeric, Ends
  <2> HIDE DEF ends, rows, class
  <2> QED
    BY <2>3, <2>5, Zenon DEF Between, Inside
<1>4. Says(ends, rows, class)
  <2> HIDE DEF ends, rows, class
  <2> QED
    BY <1>2, <1>3, Zenon DEF Says, Numeric
<1>5. class \in Classes
  BY <1>2, Zenon DEF Classes
<1> QED
  BY <1>1, <1>4, <1>5, RegisterGood, Zenon

-----------------------------------------------------------------------------
(***************************************************************************)
(* The evaluation                                                          *)
(***************************************************************************)
\* The values of the columns and the literals are of the numeric type.
LEMMA DataInt ==
    \A v \in Data \cup Literals \cup StringLiterals : v \in Int /\ Lowest <= v /\ v <= Highest
<1>1. \A v \in Lowest .. Highest : v \in Int /\ Lowest <= v /\ v <= Highest
  BY RangeAssumption
<1> QED
  BY <1>1, DataAssumption, Zenon

\* A literal is a good operand.
LEMMA LiteralGood ==
    ASSUME NEW type \in {"int", "string"}, NEW value \in Int
    PROVE  Good(Literal(type, value))
<1> DEFINE x == Literal(type, value)
<1>1. /\ x.kind = "const" /\ x.min = value /\ x.max = value /\ x.flag = FALSE
      /\ x.rows = [r \in Rows |-> value] /\ x.class = "ordered"
  BY Zenon DEF Literal, Operand, Ends
<1>2. x \in Operands
  BY Zenon DEF Literal, Operand, Ends, Operands, Classes
<1>3. Meaning(x) /\ Leaf(x)
  <2> HIDE DEF x
  <2> QED
    BY <1>1 DEF Meaning, Leaf, Between, Numeric
<1> QED
  BY <1>2, <1>3, Zenon DEF Good

\* A column is a good operand: its statistics enclose its values.
LEMMA LoadColGood ==
    ASSUME NEW c \in Columns, TypeOK, Enclosed
    PROVE  Good(LoadCol(c))
<1> DEFINE x == LoadCol(c)
<1>0. /\ statistics[c].min \in Int /\ statistics[c].max \in Int
      /\ block[c] \in [Rows -> Int \cup {Null}]
  <2>1. Data \cup {Null} \subseteq Int \cup {Null}
    BY DataInt, Zenon
  <2>2. block[c] \in [Rows -> Data \cup {Null}]
    BY Zenon DEF TypeOK
  <2>3. block[c] \in [Rows -> Int \cup {Null}]
    BY <2>1, <2>2, Zenon
  <2> QED
    BY <2>3, Zenon DEF TypeOK
<1>1. /\ x.kind = "col" /\ x.min = statistics[c].min /\ x.max = statistics[c].max /\ x.flag = FALSE
      /\ x.rows = block[c] /\ x.class = "ordered"
  BY Zenon DEF LoadCol, Operand, Ends
<1>2. x \in Operands
  BY <1>0, Zenon DEF LoadCol, Operand, Ends, Operands, Classes
<1>3. Meaning(x) /\ Leaf(x)
  <2> HIDE DEF x
  <2> QED
    BY <1>1, Zenon DEF Meaning, Leaf, Between, Numeric, Enclosed
<1> QED
  BY <1>2, <1>3, Zenon DEF Good

\* The initial statistics enclose the values of the block.
LEMMA InitInv == Init => IInv
<1> SUFFICES ASSUME Init PROVE IInv
  BY Zenon
<1>1. statistics \in [Columns -> [min : Int, max : Int]]
  <2>1. Data \cup {Lowest, Highest} \subseteq Int
    BY DataInt, RangeAssumption, Zenon
  <2> QED
    BY <2>1, Zenon DEF Init
<1>2. TypeOK
  BY <1>1, BoundsAssumption DEF Init, TypeOK
<1>3. Enclosed
  <2> SUFFICES ASSUME NEW c \in Columns, NEW r \in Rows, block[c][r] # Null
               PROVE  statistics[c].min <= block[c][r] /\ block[c][r] <= statistics[c].max
    BY Zenon DEF Enclosed
  <2>1. block[c][r] \in Values(c) /\ block[c][r] \in Data
    BY Zenon DEF Values, Init
  <2>2. block[c][r] \in Int /\ Lowest <= block[c][r] /\ block[c][r] <= Highest
    BY <2>1, DataInt, Zenon
  <2>3. \/ setBlockStatistics(c, statistics[c].min, statistics[c].max)
        \/ updateBlockStatistics(c, statistics[c].min, statistics[c].max)
    BY Zenon DEF Init
  <2> QED
    BY <2>1, <2>2, <2>3, Zenon DEF setBlockStatistics, updateBlockStatistics
<1> QED
  BY <1>2, <1>3 DEF IInv, Init

\* The operands of parserStack_ that stay when some are taken from its top.
LEMMA PrefixOfStack ==
    ASSUME NEW S, NEW q \in Seq(S), NEW m \in 0 .. Len(q)
    PROVE  /\ SubSeq(q, 1, m) \in Seq(S) /\ Len(SubSeq(q, 1, m)) = m
           /\ \A k \in 1 .. m : SubSeq(q, 1, m)[k] = q[k]
<1>1. Len(q) \in Nat /\ m \in Nat /\ \A k \in 1 .. Len(q) : q[k] \in S
  OBVIOUS
<1>2. \A k \in 1 .. m : q[k] \in S
  BY <1>1
<1>3. SubSeq(q, 1, m) \in Seq(S)
  BY <1>1, <1>2
<1>4. Len(SubSeq(q, 1, m)) = m
  BY <1>1
<1>5. \A k \in 1 .. m : SubSeq(q, 1, m)[k] = q[k]
  BY <1>1
<1> QED
  BY <1>3, <1>4, <1>5, Zenon

\* A good operand pushed on the stack, in the place of those it was computed
\* from, keeps the invariant.
LEMMA PushInv ==
    ASSUME IInv, NEW x, Good(x), NEW n \in 0 .. Len(parserStack_),
           parserStack_' = Append(SubSeq(parserStack_, 1, Len(parserStack_) - n), x),
           operations' \in 0 .. MaxOps, status = "running",
           UNCHANGED <<block, statistics, status, whereResult_>>
    PROVE  IInv'
<1> DEFINE m == Len(parserStack_) - n
<1>1. parserStack_ \in Seq(Operands) /\ m \in 0 .. Len(parserStack_) /\ x \in Operands
  BY DEF IInv, TypeOK, Good
<1>2. /\ SubSeq(parserStack_, 1, m) \in Seq(Operands) /\ Len(SubSeq(parserStack_, 1, m)) = m
      /\ \A k \in 1 .. m : SubSeq(parserStack_, 1, m)[k] = parserStack_[k]
  <2> HIDE DEF m
  <2> QED
    BY <1>1, PrefixOfStack, Zenon
<1>3. /\ parserStack_' \in Seq(Operands) /\ Len(parserStack_') = m + 1
      /\ parserStack_'[m + 1] = x /\ \A k \in 1 .. m : parserStack_'[k] = parserStack_[k]
  BY <1>1, <1>2
<1>4. TypeOK'
  BY <1>3, Zenon DEF IInv, TypeOK
<1>5. Enclosed'
  BY Zenon DEF IInv, Enclosed
<1>6. \A k \in 1 .. Len(parserStack_') : Good(parserStack_'[k])
  <2> SUFFICES ASSUME NEW k \in 1 .. Len(parserStack_') PROVE Good(parserStack_'[k])
    BY Zenon
  <2>1. CASE k = m + 1
    BY <2>1, <1>3, Zenon
  <2>2. CASE k # m + 1
    <3>1. k \in 1 .. m /\ k \in 1 .. Len(parserStack_)
      <4> HIDE DEF m
      <4>1. Len(parserStack_') = m + 1 /\ m \in 0 .. Len(parserStack_) /\ Len(parserStack_) \in Nat
        BY <1>1, <1>3
      <4> QED
        BY <4>1, <2>2
    <3> QED
      BY <3>1, <1>3, Zenon DEF IInv
  <2> QED
    BY <2>1, <2>2, Zenon
<1>7. status' # "done"
  BY Zenon
<1> QED
  BY <1>4, <1>5, <1>6, <1>7, Zenon DEF IInv, Good, Meaning, Leaf

\* Every step of the evaluation keeps the invariant.
LEMMA NextInv == IInv /\ [Next]_vars => IInv'
<1> SUFFICES ASSUME IInv, [Next]_vars PROVE IInv'
  BY Zenon
<1>s. /\ parserStack_ \in Seq(Operands) /\ operations \in 0 .. MaxOps
      /\ Len(parserStack_) \in Nat /\ TypeOK /\ Enclosed
  BY DEF IInv, TypeOK
<1>t. /\ parserStack_ # <<>> => Len(parserStack_) >= 1 /\ Good(Top)
      /\ Len(parserStack_) >= 2 => Good(Top) /\ Good(Second)
  <2>1. parserStack_ # <<>> => Len(parserStack_) >= 1
    BY <1>s
  <2>2. Len(parserStack_) >= 1 => Len(parserStack_) \in 1 .. Len(parserStack_)
    BY <1>s
  <2>3. Len(parserStack_) >= 2 => Len(parserStack_) - 1 \in 1 .. Len(parserStack_)
    BY <1>s
  <2> QED
    BY <1>s, <2>1, <2>2, <2>3 DEF IInv, Top, Second
<1>p. ASSUME NEW x, Good(x), status = "running", Push(x) PROVE IInv'
  <2>1. SubSeq(parserStack_, 1, Len(parserStack_) - 0) = parserStack_
    BY <1>s
  <2> QED
    BY <1>p, <1>s, <2>1, PushInv DEF Push
<1>r. ASSUME NEW n \in {0, 1, 2}, NEW x, Good(x), PushTempResult(n, x) PROVE IInv'
  <2>1. n \in 0 .. Len(parserStack_) /\ operations' \in 0 .. MaxOps
    BY <1>r, <1>s, BoundsAssumption DEF PushTempResult
  <2> QED
    BY <1>r, <2>1, PushInv, Zenon DEF PushTempResult
<1>1. ASSUME NEW value \in Literals, exitLiteral("int", value) PROVE IInv'
  <2>1. Good(Literal("int", value))
    BY DataInt, LiteralGood, Zenon
  <2> QED
    BY <1>1, <1>p, <2>1, Zenon DEF exitLiteral
<1>2. ASSUME NEW value \in StringLiterals, exitLiteral("string", value) PROVE IInv'
  <2>1. Good(Literal("string", value))
    BY DataInt, LiteralGood, Zenon
  <2> QED
    BY <1>2, <1>p, <2>1, Zenon DEF exitLiteral
<1>3. ASSUME NEW c \in Columns, exitVarReference(c) PROVE IInv'
  BY <1>3, <1>p, <1>s, LoadColGood, Zenon DEF exitVarReference
<1>4. ASSUME NEW op \in FilterOps, exitFilterOperation(op) PROVE IInv'
  BY <1>4, <1>r, <1>t, FilterGood, Zenon DEF exitFilterOperation, CanCompare
<1>5. ASSUME NEW op \in LogicalOps, exitLogicalOperation(op) PROVE IInv'
  BY <1>5, <1>r, <1>t, LogicalGood, Zenon DEF exitLogicalOperation
<1>6. ASSUME NEW op \in ArithmeticOps, exitArithmeticOperation(op) PROVE IInv'
  BY <1>6, <1>r, <1>t, ArithmeticGood, Zenon DEF exitArithmeticOperation
<1>7. ASSUME exitNotOperation PROVE IInv'
  BY <1>7, <1>r, <1>t, NotGood, Zenon DEF exitNotOperation
<1>8. ASSUME NEW op, exitNullOperation(op) PROVE IInv'
  BY <1>8, <1>r, NullGood, Zenon DEF exitNullOperation
<1>9. ASSUME NEW op \in UnaryOps, exitArithmeticUnaryOperation(op) PROVE IInv'
  BY <1>9, <1>r, <1>t, ArithmeticUnaryGood, Zenon DEF exitArithmeticUnaryOperation
<1>10. ASSUME exitCastOperation PROVE IInv'
  BY <1>10, <1>r, <1>t, CastGood, Zenon DEF exitCastOperation
<1>11. ASSUME Fail PROVE IInv'
  BY <1>11, Zenon DEF Fail, IInv, TypeOK, Enclosed, Top
<1>12. ASSUME exitWhereClause PROVE IInv'
  <2>1. WhereResult(Top) \in {0, 1}
    BY Zenon DEF WhereResult, Bit
  <2> QED
    BY <1>12, <2>1, Zenon DEF exitWhereClause, IInv, TypeOK, Enclosed, Top
<1>14. ASSUME NEW rows, exitContainsOperation(rows) PROVE IInv'
  BY <1>14, <1>r, ContainsGood, Zenon DEF exitContainsOperation
<1>13. CASE UNCHANGED vars
  BY <1>13, Zenon DEF vars, IInv, TypeOK, Enclosed, Top
<1> QED
  BY <1>1, <1>2, <1>3, <1>4, <1>5, <1>6, <1>7, <1>8, <1>9, <1>10, <1>11, <1>12, <1>13, <1>14, Zenon
     DEF Next, InvalidOperandTypesErrorHandler, NullMaskOperationInvalidOperand, ColumnAsClause

\* What the registers say of the block, in every state.
LEMMA InvSound == IInv => RegistersSound
BY Zenon DEF IInv, Good, RegistersSound

\* The invariant gives the correctness of skipping.
LEMMA InvSkipped == IInv => SkippedBlocksEmpty
<1> SUFFICES ASSUME IInv, status = "done", whereResult_ = 0, Top.class # "unknown",
                    NEW r \in Rows, True(Top.rows[r])
             PROVE  FALSE
  BY Zenon DEF SkippedBlocksEmpty
<1>1. Len(parserStack_) = 1 /\ WhereResult(Top) = 0
  BY Zenon DEF IInv
<1>2. Good(Top)
  BY <1>1 DEF IInv, Top
<1>3. Top.class \in Classes /\ Top.flag \in BOOLEAN
  BY <1>2, GoodParts, Zenon
<1>4. ~Top.flag /\ Top.min = 0 /\ Top.max = 0
  BY <1>1 DEF WhereResult, Bit
<1>5. Top.class # "flagged"
  BY <1>2, <1>4, Zenon DEF Good, Meaning
<1>6. Top.class \in Sound
  BY <1>3, <1>5, Zenon DEF Classes, Sound
<1> QED
  BY <1>2, <1>4, <1>6, SoundTrue, Zenon

\* The ends of every register that CpuSqlDispatcher computes say of the rows
\* of the block what the operations they come from allow, for blocks, clauses
\* and numbers of any size.
THEOREM RegistersAreSound == Spec => []RegistersSound
<1>1. Init => IInv
  BY InitInv, Zenon
<1>2. IInv /\ [Next]_vars => IInv'
  BY NextInv, Zenon
<1>3. IInv => RegistersSound
  BY InvSound, Zenon
<1> QED
  BY <1>1, <1>2, <1>3, PTL DEF Spec

\* A block for which Execute returns 0 has no row that the clause selects, for
\* every clause whose operations keep the ends meaningful.
THEOREM SkippingIsSound == Spec => []SkippedBlocksEmpty
<1>1. Init => IInv
  BY InitInv, Zenon
<1>2. IInv /\ [Next]_vars => IInv'
  BY NextInv, Zenon
<1>3. IInv => SkippedBlocksEmpty
  BY InvSkipped, Zenon
<1> QED
  BY <1>1, <1>2, <1>3, PTL DEF Spec
=============================================================================
