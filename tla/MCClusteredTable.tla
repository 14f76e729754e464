--------------------------- MODULE MCClusteredTable ---------------------------
EXTENDS ClusteredTable

Shape(blockSize, maskBits, values, maxRows) ==
    [blockSize |-> blockSize, maskBits |-> maskBits, values |-> values, maxRows |-> maxRows]

\* Even blocks within a word, with more rows or with more values; odd blocks;
\* a cut at the end of a word; blocks of several words.
MCShapes ==
    {Shape(4, 8, {1}, 5), Shape(4, 8, {1, 2}, 4), Shape(2, 8, {1, 2}, 3), Shape(3, 8, {1}, 4),
     Shape(4, 2, {1}, 4), Shape(6, 2, {1}, 6)}
=============================================================================
