----------------------------- MODULE MCCpuWhere -----------------------------
EXTENDS CpuWhere, TLC
CONSTANTS r1, r2, a, s

MCData == {0, 2}
MCLowest == -4
MCNarrowLowest == -2
MCLiterals == {-1, 1}
RowSymmetry == Permutations({r1, r2})
=============================================================================
