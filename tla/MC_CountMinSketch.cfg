\* The sketch against exact counts: three keys, two rows of two counters.
CONSTANTS
    k1 = k1
    k2 = k2
    k3 = k3
    Rows <- MCRows
    Cols <- MCCols
    Hash <- MCHash
    MaxIncrements = 8
SPECIFICATION SketchSpec
INVARIANTS
    NeverUnderestimates
    ExactWhenUnshared
