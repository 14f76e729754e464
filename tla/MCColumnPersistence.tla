------------------------ MODULE MCColumnPersistence ------------------------
(***************************************************************************)
(* Instances of ColumnPersistence for TLC: eight rows are three blocks, so *)
(* that a save meets full, growing and new blocks; a clustered table has   *)
(* every order of its rows, so four of them have to do.                    *)
(***************************************************************************)
EXTENDS ColumnPersistence, TLC

Bound(r, s) == [rows |-> r, starts |-> s]

MCBounds ==
    {} :> Bound(8, 2) @@ {"nulls"} :> Bound(5, 1) @@ {"crash"} :> Bound(4, 1)
    @@ {"clustered"} :> Bound(4, 1) @@ {"clustered", "persist"} :> Bound(4, 0)
=============================================================================
