-------------------------- MODULE MC_CountMinSketch --------------------------
(***************************************************************************)
(* The count-min sketch checked against exact counting.  Alongside the     *)
(* sketch table runs an exact counter per key that sees the same           *)
(* increments and the same halvings (decayCountsBy(0.5), as                *)
(* updateFrequenciesLocked applies it when the window fills).  Two rows of *)
(* two counters over three keys: k1 and k2 share a counter on row 1, k2    *)
(* and k3 share one on row 2, and k1 has row 2's first counter to itself.  *)
(***************************************************************************)
EXTENDS CountMinSketch

CONSTANTS k1, k2, k3, MaxIncrements

Keys == {k1, k2, k3}

VARIABLES
    tbl,         \* the sketch table
    exact,       \* per key: its exact count under the same decay
    increments   \* increments so far (bounded)

sketchVars == <<tbl, exact, increments>>

SketchInit ==
    /\ tbl = EmptyTable
    /\ exact = [k \in Keys |-> 0]
    /\ increments = 0

\* accessFreq_.increment(hashNode(node)) in updateFrequenciesLocked.
Count(k) ==
    /\ increments < MaxIncrements
    /\ tbl' = Increment(tbl, k)
    /\ exact' = [exact EXCEPT ![k] = @ + 1]
    /\ increments' = increments + 1

\* accessFreq_.decayCountsBy(kDecayFactor) when windowSize_ hits the maximum.
Decay ==
    /\ tbl' = DecayCountsBy(tbl)
    /\ exact' = [k \in Keys |-> exact[k] \div 2]
    /\ UNCHANGED increments

SketchNext == Decay \/ \E k \in Keys : Count(k)

SketchSpec == SketchInit /\ [][SketchNext]_sketchVars

\* getCount never reports less than the key's exact count, through any mix
\* of increments and halvings: admission (admitToProbation) and promotion
\* (protectionFreq) can over-rate a key through collisions, never under-rate
\* one.
NeverUnderestimates == \A k \in Keys : GetCount(tbl, k) >= exact[k]

\* A key that has a counter to itself on some row is counted exactly, even
\* after halvings (integer halving of one counter is the halving of the
\* exact count).
ExactWhenUnshared ==
    \A k \in Keys :
        (\E r \in Rows : \A j \in Keys \ {k} : Hash[r][j] # Hash[r][k])
            => GetCount(tbl, k) = exact[k]

MCRows == 1..2
MCCols == 1..2
MCHash == [r \in MCRows |-> [k \in {k1, k2, k3} |->
              CASE r = 1 -> IF k = k3 THEN 2 ELSE 1
                [] r = 2 -> IF k = k1 THEN 1 ELSE 2]]
=============================================================================
