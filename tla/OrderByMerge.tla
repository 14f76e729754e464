----------------------------- MODULE OrderByMerge -----------------------------
(* ORDER BY, last phase: the blocks that the dispatchers have sorted are      *)
(* merged into one result by the dispatcher of the last block, row by row.    *)
(* The code keeps an array for each column of each block, all of them indexed *)
(* by currentIndicesInBlocks; a row here is what stands at one index of all   *)
(* of them: keys are the values of the order columns in the order of the      *)
(* clause, cells what the returned columns hold.                              *)
EXTENDS Integers, Sequences, FiniteSets

CONSTANTS
    Lowest, Highest   \* numeric_limits of the type of the order columns

ASSUME LimitsAssumption == Lowest \in Int /\ Highest \in Int

VARIABLES
    mergeState,    \* "idle", "merging", "merged" or "threw"
    sortedBlocks,  \* reconstructedOrderByOrderColumnBlocks and ...RetColumnBlocks
    directions,    \* of the order columns, in the order of the clause
    currentIndicesInBlocks,
    merged,        \* reconstructedOrderByColumnsMerged_
    origins        \* history: <<block, index>> of the rows of merged

mergeVars == <<mergeState, sortedBlocks, directions, currentIndicesInBlocks,
               merged, origins>>

MergeInit ==
    /\ mergeState = "idle"
    /\ sortedBlocks = <<>>
    /\ directions = <<>>
    /\ currentIndicesInBlocks = <<>>
    /\ merged = <<>>
    /\ origins = <<>>

\* The blocks of all devices are moved into one list.
StartMerge(blocks, dirs) ==
    /\ mergeState = "idle"
    /\ mergeState' = "merging"
    /\ sortedBlocks' = blocks
    /\ directions' = dirs
    /\ currentIndicesInBlocks' = [j \in DOMAIN blocks |-> 0]
    /\ UNCHANGED <<merged, origins>>

BlockRows ==
    UNION {{j} \X (1 .. Len(sortedBlocks[j])) : j \in DOMAIN sortedBlocks}

resultSetSize == Cardinality(BlockRows)

\* The blocks that have rows left, and the value of column i at a block's head.
Live == {j \in DOMAIN sortedBlocks : currentIndicesInBlocks[j] < Len(sortedBlocks[j])}

HeadRow(j) == sortedBlocks[j][currentIndicesInBlocks[j] + 1]

Key(i, j) == HeadRow(j).keys[i]

ValuesAreEqual(i) == \A j, k \in Live : Key(i, j) = Key(i, k)

First(S) == CHOOSE j \in S : \A k \in S : j <= k

\* The column that decides: the first in which the heads differ, else the last.
DecidingColumn ==
    First({i \in DOMAIN directions : ~ ValuesAreEqual(i)} \cup {Len(directions)})

\* x comes before y in column i.
Better(i, x, y) == IF directions[i] = "ASC" THEN x < y ELSE x > y

\* Mutant: the maximum of a descending column starts like a minimum.
WorstAscending(i) == Highest

\* What minimum and maximum start with.
Worst(i) == IF directions[i] = "ASC" THEN Highest ELSE Lowest

\* The blocks with the best value, if it is better than the initial one.
Extremes(i) ==
    {j \in Live : /\ Better(i, Key(i, j), Worst(i))
                  /\ \A k \in Live : ~ Better(i, Key(i, k), Key(i, j))}

BlockToMerge(i) ==
    IF ValuesAreEqual(i) THEN First(Live) ELSE First(Extremes(i))

TakeRow(j) ==
    /\ merged' = Append(merged, HeadRow(j))
    /\ origins' = Append(origins, <<j, currentIndicesInBlocks[j] + 1>>)
    /\ currentIndicesInBlocks' = [currentIndicesInBlocks EXCEPT ![j] = @ + 1]

\* One turn of the while loop.
MergeRow ==
    /\ mergeState = "merging"
    /\ Live # {}
    /\ LET i == DecidingColumn
       IN  IF \/ ~ ValuesAreEqual(i) /\ Extremes(i) = {}
              \/ Len(merged) >= resultSetSize
           THEN /\ mergeState' = "threw"
                /\ UNCHANGED <<merged, origins, currentIndicesInBlocks>>
           ELSE /\ TakeRow(BlockToMerge(i))
                /\ UNCHANGED mergeState
    /\ UNCHANGED <<sortedBlocks, directions>>

EndMerge ==
    /\ mergeState = "merging"
    /\ Live = {}
    /\ mergeState' = "merged"
    /\ UNCHANGED <<sortedBlocks, directions, currentIndicesInBlocks, merged, origins>>

-----------------------------------------------------------------------------
(* The merge by itself, of any blocks whose keys are values of the type. *)

KeyRow(n) == [keys : [1 .. n -> Lowest .. Highest], cells : STRING]

MergeNext ==
    \/ \E dirs \in Seq({"ASC", "DESC"}) :
          /\ dirs # <<>>
          /\ \E blocks \in Seq(Seq(KeyRow(Len(dirs)))) : StartMerge(blocks, dirs)
    \/ MergeRow
    \/ EndMerge

MergeSpec == MergeInit /\ [][MergeNext]_mergeVars

-----------------------------------------------------------------------------
(* Properties *)

\* Every block is in order of the leading column.
BlocksOrdered ==
    \A j \in DOMAIN sortedBlocks : \A p, q \in DOMAIN sortedBlocks[j] :
        p < q => ~ Better(1, sortedBlocks[j][q].keys[1], sortedBlocks[j][p].keys[1])

\* The merge of ordered blocks is in order of the leading column however many
\* blocks and columns there are, contains each row of each block once and
\* nothing else, and neither out_of_range exception of the loop is ever thrown.
MergeOrdered ==
    /\ mergeState # "threw"
    /\ \A n \in DOMAIN merged :
          /\ origins[n] \in BlockRows
          /\ merged[n] = sortedBlocks[origins[n][1]][origins[n][2]]
    /\ \A m, n \in DOMAIN origins : origins[m] = origins[n] => m = n
    /\ mergeState = "merged" => \A r \in BlockRows : \E n \in DOMAIN origins : origins[n] = r
    /\ BlocksOrdered =>
          \A m, n \in DOMAIN merged :
             m < n => ~ Better(1, merged[n].keys[1], merged[m].keys[1])

=============================================================================
