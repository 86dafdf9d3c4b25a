---------------------------- MODULE MC_MMWTinyLFU ----------------------------
(***************************************************************************)
(* Model-checking instances of MMWTinyLFU.  The sketch has one row of two  *)
(* counters and e1 and e3 share a counter, so their counts over-estimate   *)
(* as a real count-min sketch's do.  Capacities are scaled down            *)
(* (kDefaultCapacity = 1, window ratio 2, 50% caps) so that the Tiny and   *)
(* Main caps, the window decay and the sketch growth all happen with two   *)
(* or three entries.                                                       *)
(***************************************************************************)
EXTENDS MMWTinyLFU, TLC

CONSTANTS e1, e2, e3, e4, t1, t2

\* Three entries driven by one thread: every sequence of operations.
MCEntries == {e1, e2, e3}
MCOneThread == {t1}

\* Four entries, one thread: enough to fill a segment and then shrink the
\* others under it, which the cap checks need.
MCFourEntries == {e1, e2, e3, e4}

\* Two colliding entries driven by two threads: the interleavings.
MCTwoEntries == {e1, e3}
MCThreads == {t1, t2}

MCRows == 1..1
MCCols == 1..2
MCHash == [r \in MCRows |-> [n \in MCFourEntries |-> IF n \in {e2, e4} THEN 2 ELSE 1]]

ThreadSymmetry == Permutations(MCThreads)

\* Runs without setConfig calls.
NoConfigChanges == {}

\* Two configs a caller may switch to: refresh time 0 with try-lock, and
\* refresh time 2 without (a constructed Config has lruRefreshTime equal to
\* defaultLruRefreshTime).
MCConfigChoices ==
    {[defaultLruRefreshTime |-> 0, lruRefreshTime |-> 0, tryLockUpdate |-> TRUE],
     [defaultLruRefreshTime |-> 2, lruRefreshTime |-> 2, tryLockUpdate |-> FALSE]}

=============================================================================
