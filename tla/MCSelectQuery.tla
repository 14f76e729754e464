---------------------------- MODULE MCSelectQuery ----------------------------
(* Tables of a few blocks, and queries of every kind on them. *)
EXTENDS SelectQuery

\* A column of blocks of the given sizes; row n is NULL if n is in nulls.
Blocks(sizes, data, nulls, nullable) ==
    LET from(b) == FoldLeft(LAMBDA sum, n : sum + n, 0, SubSeq(sizes, 1, b - 1))
    IN  [b \in DOMAIN sizes |->
           [data |-> SubSeq(data, from(b) + 1, from(b) + sizes[b]),
            mask |-> IF nullable
                     THEN PadMask([i \in 1 .. sizes[b] |-> from(b) + i \in nulls]) ELSE <<>>]]

NullableCol(table, size, sizes, data, nulls) ==
    [table |-> table, nullable |-> TRUE, unique |-> FALSE, blockSize |-> size,
     blocks |-> Blocks(sizes, data, nulls, TRUE)]
Col(table, unique, size, sizes, data) ==
    [table |-> table, nullable |-> FALSE, unique |-> unique, blockSize |-> size,
     blocks |-> Blocks(sizes, data, {}, FALSE)]

Item(op, col) == [op |-> op, col |-> col]
Select(items, where, order, join, offset, limit, date) ==
    [items |-> items, where |-> where, order |-> order, join |-> join,
     offset |-> offset, limit |-> limit, date |-> date]
In(devices, columns, q) == [devices |-> devices, blockSize |-> 3, columns |-> columns, query |-> q]

Total(sizes) == FoldLeft(LAMBDA sum, n : sum + n, 0, sizes)
Numbers(sizes) == [n \in 1 .. Total(sizes) |-> (n % 4) + 1]

\* Rows are just returned.
PlainInputs ==
    {In(devices, [a |-> NullableCol("t", 3, sizes, Numbers(sizes), nulls),
                  b |-> Col("t", FALSE, 3, sizes, Numbers(sizes))],
        Select(<<Item("", "a"), Item("", "b")>>, "", <<>>, <<>>, offset, limit, date)) :
     devices \in 1 .. 2, sizes \in {<<3>>, <<3, 2>>, <<2, 3, 1>>, <<3, 3, 3, 1>>},
     nulls \in {{1, 3, 5, 9}, {2, 5, 6, 10}}, offset \in {0, 1, 2, 3, 5, 11},
     limit \in {0, 1, 4, 8, MaxInt}, date \in BOOLEAN}

\* WHERE.
FilterInputs ==
    UNION {{In(devices, [a |-> NullableCol("t", 3, sizes, Numbers(sizes), nulls),
                         w |-> Col("t", FALSE, 3, sizes, filter)],
               Select(<<Item("", "a")>>, "w", <<>>, <<>>, window[1], window[2], FALSE)) :
            devices \in {2}, nulls \in {{1, 2}, {2, 4, 5}}, window \in {<<1, 2>>, <<0, MaxInt>>},
            filter \in [1 .. Total(sizes) -> {0, 1}]} :
           sizes \in {<<3, 2>>, <<3, 3, 1>>}}

AggregationInputs ==
    UNION {{In(devices, [a |-> NullableCol("t", 3, sizes, Numbers(sizes), nulls),
                         b |-> Col("t", FALSE, 3, sizes, Numbers(sizes)),
                         w |-> Col("t", FALSE, 3, sizes, filter)],
               Select(items, where, <<>>, <<>>, 0, MaxInt, FALSE)) :
            devices \in {2}, nulls \in {{}, {1}}, where \in {"", "w"},
            items \in {<<Item("MIN", "a"), Item("MAX", "a")>>, <<Item("COUNT", "a"), Item("SUM", "b")>>,
                       <<Item("SUM", "b"), Item("COUNT", "b")>>, <<Item("AVG", "b"), Item("MAX", "a")>>},
            filter \in [1 .. Total(sizes) -> {0, 1}]} :
           sizes \in {<<2>>, <<3, 1>>, <<2, 1, 1>>}}

Order(col, dir) == [col |-> col, dir |-> dir]

\* ORDER BY; column c is not nullable.
OrderQuery(devices, sizes, data, nulls, filter, item, where, order) ==
    In(devices, [a |-> NullableCol("t", 3, sizes, data, nulls),
                 b |-> NullableCol("t", 3, sizes, Numbers(sizes), {2}),
                 c |-> Col("t", FALSE, 3, sizes, Numbers(sizes)),
                 w |-> Col("t", FALSE, 3, sizes, filter)],
       Select(<<Item("", item)>>, where, order, <<>>, 1, 2, FALSE))

Orders == {<<Order("a", "ASC")>>, <<Order("a", "DESC"), Order("b", "ASC")>>}

OrderInputs ==
    UNION {{OrderQuery(devices, sizes, data, nulls, [n \in 1 .. Total(sizes) |-> n % 2],
                       "b", where, order) :
            devices \in {1, 3}, data \in [1 .. Total(sizes) -> 1 .. 2], nulls \in {{}, {3}},
            where \in {"", "w"}, order \in Orders} :
           sizes \in {<<2, 1>>, <<2, 1, 1>>, <<3, 2>>}}
    \cup {OrderQuery(2, <<2, 1>>, data, nulls, <<1, 1, 0>>, item, where, order) :
            data \in {<<0, 1, 2>>, <<2, 2, 1>>}, nulls \in {{}, {3}}, item \in {"b", "c"}, where \in {"", "w"},
            order \in Orders \cup {<<Order("c", "DESC")>>}}

\* Joins.
JoinInputs ==
    {In(2, [l |-> left, r |-> right,
            v |-> NullableCol("L", left.blockSize, [b \in 1 .. 2 |-> Len(left.blocks[b].data)],
                              <<1, 2, 3, 4>>, nulls)],
        Select(IF order = <<>> THEN <<Item("", "v"), Item("", "r")>> ELSE <<Item("", "v")>>,
               "", order, <<"l", "r">>, 0, MaxInt, FALSE)) :
     left \in {NullableCol("L", 3, <<3, 1>>, data, n) :
                  data \in {<<0, 1, 2, 0>>, <<2, 2, 0, 1>>, <<1, 0, 2, 2>>}, n \in {{}, {1}, {4}}}
              \cup {Col("L", u, 3, <<3, 1>>, <<1, 2, 0, 3>>) : u \in BOOLEAN}
              \cup {Col("L", FALSE, 2, <<2, 2>>, <<1, 2, 4, 3>>)},
     right \in {Col("R", TRUE, 3, <<3>>, data) : data \in {<<2, 0, 1>>, <<0, 1, 3>>}}
              \cup {Col("R", FALSE, 3, <<3, 1>>, data) : data \in {<<2, 0, 2, 1>>, <<0, 1, 3, 3>>}},
     nulls \in {{}, {2}}, order \in {<<>>, <<Order("v", "ASC")>>}}

MCInputs == PlainInputs \cup FilterInputs \cup AggregationInputs \cup OrderInputs \cup JoinInputs
=============================================================================
