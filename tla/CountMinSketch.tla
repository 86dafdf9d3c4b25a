--------------------------- MODULE CountMinSketch ---------------------------
(***************************************************************************)
(* The approximate frequency counter used by MMWTinyLFU (accessFreq_).     *)
(* Its implementation, cachelib/common/CountMinSketch.h, is not part of    *)
(* this repository's sources, so these operators follow the spec (4.2):    *)
(* one counter per (row, column); a key is hashed to one column per row;   *)
(* increment bumps the key's counter in every row, getCount is the         *)
(* minimum over the rows, decayCountsBy(0.5) scales every counter down     *)
(* (integer truncation).                                                   *)
(*                                                                         *)
(* A table is a function [Rows -> [Cols -> Nat]].  Hash[r][k] is the       *)
(* column key k lands in on row r; a model picks Hash with collisions so   *)
(* that the sketch over-estimates as the real one does.                    *)
(***************************************************************************)
EXTENDS Naturals, FiniteSetsExt

CONSTANTS
    Rows,   \* the hash rows (kHashCount of them in the code)
    Cols,   \* the counters of one row (numCounters)
    Hash    \* Hash[r][k] \in Cols

\* A freshly constructed sketch: every counter zero.
EmptyTable == [r \in Rows |-> [c \in Cols |-> 0]]

\* Mutant: only the first row is bumped.
IncrementFirstRow(tbl, k) ==
    [r \in Rows |-> IF r = Min(Rows) THEN [tbl[r] EXCEPT ![Hash[r][k]] = @ + 1] ELSE tbl[r]]

\* increment(hash): bump the key's counter on every row.
Increment(tbl, k) ==
    [r \in Rows |-> [tbl[r] EXCEPT ![Hash[r][k]] = @ + 1]]

\* Mutant: the largest of the key's counters.
GetCountLargest(tbl, k) == Max({tbl[r][Hash[r][k]] : r \in Rows})

\* getCount(hash): the smallest of the key's counters.
GetCount(tbl, k) == Min({tbl[r][Hash[r][k]] : r \in Rows})

\* decayCountsBy(kDecayFactor) with kDecayFactor = 0.5: every counter is
\* multiplied by 0.5 and truncated.
DecayCountsBy(tbl) == [r \in Rows |-> [c \in Cols |-> tbl[r][c] \div 2]]

=============================================================================
