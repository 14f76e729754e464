----------------------------- MODULE MCGPUGroupBy -----------------------------
(***************************************************************************)
(* Instances of GPUGroupBy: two devices, kernels of two threads, tables    *)
(* of one bucket that grow to at most three, int32_t of three bits.        *)
(***************************************************************************)
EXTENDS GPUGroupBy

MCLowest == -32

\* Strings are numbers; 9 is a string whose hash is the smallest int32_t.
MCStringHash(k) == IF k = 9 THEN MinInt ELSE k % 3

\* Keys of two columns. The hash is negative only in a table of one slot, where
\* hashCoef is 0.
MCMultiHash(k, n) == IF k[1] = Null THEN 0 ELSE IF n = 1 /\ k[1] = 2 THEN MinInt ELSE k[1]

\* Three keys per kind, two of which collide, and the NULL key, or a key with
\* a NULL column.
Keys3(k) == IF k = "multi" THEN <<<<1, 1>>, <<1, Null>>, <<2, 1>>, <<Null, Null>>>>
            ELSE <<1, 7, 2, Null>>

\* A numeric key that stands for an empty slot, and keys with a negative hash.
OddKeys(k) == IF k = "string" THEN {9} ELSE {4, MCLowest}

Ops == {"min", "sum", "avg", "count", "none"}

Vals == {<<2, -1, 3, 1>>, <<Null, 2, 3, Null>>}

Cut(r, shape) ==
    CASE shape = 1 -> <<r>>
      [] shape = 2 -> <<SubSeq(r, 1, 2), SubSeq(r, 3, Len(r))>>
      [] shape = 3 -> <<SubSeq(r, 1, 1), SubSeq(r, 2, 2), SubSeq(r, 3, Len(r))>>

RowsOf(keys, vals, kept) == [i \in 1..Len(keys) |-> [key |-> keys[i], val |-> vals[i], kept |-> kept[i]]]

AllKept == [i \in 1..4 |-> TRUE]

QueriesOf(kinds, ops, sources, keys(_), vals, kepts, shapes) ==
    UNION {{[kind |-> k, op |-> o, source |-> src, blocks |-> Cut(RowsOf(ks, vs, kp), sh)]
            : o \in ops, src \in sources, ks \in keys(k), vs \in vals, kp \in kepts, sh \in shapes} : k \in kinds}

\* Three rows, the first with the first key or NULL.
ThreeKeys(k) == {<<Keys3(k)[a], Keys3(k)[b], Keys3(k)[c]>> : a \in {1, 4}, b \in 1..4, c \in 1..4}

\* Too many keys; keys on two devices of which one table has grown.
FourKeys(k) == {<<Keys3(k)[1], Keys3(k)[2], Keys3(k)[3], (IF k = "multi" THEN <<2, 2>> ELSE 3)>>,
                <<Keys3(k)[3], Keys3(k)[1], Keys3(k)[2], Keys3(k)[1]>>}

\* An odd key next to others.
Odd(k) == UNION {{<<x, Keys3(k)[1], x>>, <<Keys3(k)[4], x, Keys3(k)[2]>>, <<Keys3(k)[1], Keys3(k)[2], x>>} : x \in OddKeys(k)}

\* A row that is filtered out.
Filtered(k) == {<<Keys3(k)[1], Keys3(k)[2], Keys3(k)[1]>>, <<Keys3(k)[4], Keys3(k)[1], Keys3(k)[4]>>}

\* The group-by column is aggregated: keys that are values.
Small(k) == {<<1, 2, 1>>, <<Null, 2, 1>>}

MCQueries ==
    QueriesOf(Kinds, Ops, {"column"}, ThreeKeys, Vals, {AllKept}, {1, 2, 3})
    \cup QueriesOf(Kinds, {"max", "avg", "none"}, {"column"}, FourKeys, Vals, {AllKept}, {1, 2, 3})
    \cup QueriesOf({"numeric", "string"}, {"sum", "avg"}, {"column"}, Odd, Vals, {AllKept}, {1, 2})
    \cup QueriesOf(Kinds, {"sum", "count"}, {"column", "asterisk"}, Filtered, Vals,
                   {<<FALSE, TRUE, TRUE>>, <<TRUE, FALSE, TRUE>>, <<FALSE, FALSE, FALSE>>}, {1, 2})
    \cup QueriesOf({"numeric"}, {"sum", "min"}, {"key"}, Small, Vals, {AllKept, <<FALSE, TRUE, TRUE>>}, {1})

=============================================================================
