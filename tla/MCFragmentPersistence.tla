----------------------- MODULE MCFragmentPersistence -----------------------
(***************************************************************************)
(* Instances of FragmentPersistence for TLC: a block takes up to two       *)
(* fragments, and the last row of a block may open one.                    *)
(***************************************************************************)
EXTENDS FragmentPersistence

Saved(polygon, nullable, n, m) ==
    [polygon |-> polygon, nullable |-> nullable, inFragment |-> n, persists |-> FALSE, saves |-> m]

Persisted(n) == [polygon |-> FALSE, nullable |-> TRUE, inFragment |-> n, persists |-> TRUE, saves |-> 0]

MCColumns ==
    {Saved(FALSE, TRUE, 2, 3), Saved(TRUE, TRUE, 3, 3), Saved(TRUE, FALSE, 4, 1),
     Persisted(2), Persisted(3)}

MCStrings == {Saved(FALSE, TRUE, 3, 2)}
=============================================================================
