SPECIFICATION Spec
CONSTANTS
  r1 = r1
  r2 = r2
  a = a
  s = s
  Rows = {r1, r2}
  IntColumns = {a}
  StringColumns = {s}
  Data <- MCData
  Literals <- MCLiterals
  StringLiterals = {1}
  Null = Null
  Lowest <- MCLowest
  Highest = 3
  NarrowLowest <- MCNarrowLowest
  NarrowHighest = 1
  MaxOps = 3
SYMMETRY RowSymmetry
INVARIANTS RegistersSound SkippedBlocksEmpty
CHECK_DEADLOCK FALSE
