-------------------------- MODULE MCTableConstraints --------------------------
(***************************************************************************)
(* Bounds for TableConstraints: two columns, so that a constraint may fail *)
(* at its second, and two values, so that a batch may repeat one.  Columns,*)
(* values and names are interchangeable.                                   *)
(***************************************************************************)
EXTENDS TableConstraints, TLC

CONSTANTS a, b, x, y, m, n

MCSymmetry == Permutations({a, b}) \cup Permutations({x, y}) \cup Permutations({m, n})
=============================================================================
