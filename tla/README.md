# TLA+ models of MMWTinyLFU

These modules model `src/cachelib/allocator/MMWTinyLFU.h`. It is CacheLib's W-TinyLFU memory-management container, and it decides which cached item is evicted next. The models are checked with TLC. `PROJECT.json` records:

- the component list;
- every TLC run and the mutants that show each property can fail;
- the map from each definition to the source lines it translates;
- the findings;
- the hazards.

## 1. The system

### Parts

| Part | Source | State | Operations |
|---|---|---|---|
| `Container` | `MMWTinyLFU.h` 405-795, 803-1179 | `lru_` is a MultiDList with three lists: Main, Probation and Tiny. `windowSize_` and `maxWindowSize_` are the decay window. `capacity_` is the size the sketch was built for. `accessFreq_` is the count-min sketch. `nextReconfigureTime_` and `lruRefreshTime_` are atomics. `config_` holds the settings. `lruMutex_` is a spin lock. | `add`, `remove(node)`, `remove(it)`, `replace`, `recordAccess`, `getEvictionIterator`, `withEvictionIterator`, `withContainerLock`, `setConfig`, `saveState`, `getStats`, `getEvictionAgeStat` |
| entry flags | 700-735 | Each node has `kMMFlag0` (Tiny), `kMMFlag1` (Accessed), `kMMFlag2` (Probation), the in-container bit and `updateTime` in its hook. | `mark*` / `unmark*` |
| `LockedIterator` | 470-600, 1181-1189 | Three reverse iterators (`tIter_`, `pIter_`, `mIter_`) and the held lock. | `++`, `*`, `operator bool`, `reset`, `destroy`, `resetToBegin` |
| `Config` | 94-400 | The settings: `lruRefreshTime`, `lruRefreshRatio`, `updateOnWrite`, `updateOnRead`, `tryLockUpdate`, `windowToCacheSizeRatio`, `tinySizePercent`, `mmReconfigureIntervalSecs`, `newcomerWinsOnTie`, `protectionFreq`, `protectionSegmentSizePct`. | `checkConfig` |
| `CountMinSketch` | `cachelib/common/CountMinSketch.h`. This file is not in the repository. | A table with rows × columns of counters. | `increment`, `getCount`, `decayCountsBy` |

### How the parts interact

**`add`**
1. Reads the clock, then takes the lock.
2. Links the node at the head of Tiny and counts it in the sketch.
3. If Tiny exceeds `tinySizePercent` of the container, moves the Tiny tail to the head of Probation.
4. Otherwise, admission (`maybePromoteTailLocked`) compares the Tiny tail with the Probation tail by sketch frequency. Depending on the result, it swaps them or rotates Probation.
5. Finally, `maybeGrowAccessCountersLocked` rebuilds an empty sketch when `2*capacity_ <= size`.

**`recordAccess`**
1. Checks the mode gate.
2. Reads the clock.
3. Performs an unlocked check: the node is in the container, and either it is due for a refresh or it has not been accessed yet.
4. Sets the Accessed bit.
5. Takes the lock, using `try_lock` if `tryLockUpdate` is set.
6. Runs `reconfigureLocked`. This recomputes `lruRefreshTime_` from the age of Main's tail, at most once per interval.
7. Re-checks the in-container bit.
8. Moves the node to the head of its list.
9. If the node was in Probation and its count exceeds `protectionFreq`, promotes it to Main. Then at most one Main tail is demoted to Probation's tail.
10. Stamps the node's time and counts it.

**The eviction iterator** holds the lock for its whole life. It merges the three lists from their tails (`getIter`):
- Tiny and Probation are interleaved by the same admission test.
- Main comes last.

`remove(it)` advances the iterator before it unlinks the node.

### Hard behaviours

- Threads interleave around a lock that `recordAccess` takes after an unlocked check. Both the time and the check can be stale by the time the lock is held.
- With `tryLockUpdate`, a `try_lock` can fail after the node has already been marked.
- The iterator holds the lock across many caller steps.
- Three lists are reshuffled by several single-step rebalancing rules. Removals can leave caps violated in ways that a single `if` does not repair.
- The sketch decays, and it is rebuilt empty on growth.

### What makes each part correct

- **Container:** every entry is in exactly one list, and that list agrees with its flags. Tiny and Main stay within their caps. The sketch stays sized for the container, with a window below its maximum. An entry is promoted at most once per refresh time.
- **Iterator:** a full walk yields every entry once, each list from tail to head, with Main last.
- **try-lock:** a failed `try_lock` changes nothing.
- **Restart:** save and restore give back the same items and the same configuration, and the rebuilt sketch is sized for the restored entries.

## 2. Modules

- **`CountMinSketch.tla`** (modelled from the spec, since the header is not in the repository):
  - The table is `[Rows -> [Cols -> Nat]]`.
  - `Hash[r][k]` gives each key a column on each row.
  - `Increment`, `GetCount` (the minimum over the rows) and `DecayCountsBy` (halving with integer truncation).
- **`MC_CountMinSketch.tla`** checks those operators against exact counting. It has three keys and two rows of two counters. `k1` and `k2` share a counter on row 1, `k2` and `k3` share one on row 2, and `k1` has a row-2 counter to itself. Its two actions are the two sketch calls of `updateFrequenciesLocked` (lines 930-941): `Count(k)` increments the sketch and the key's exact count, and `Decay` halves both. Increments are bounded by `MaxIncrements`.
- **`MMWTinyLFU.tla`** is the container, its threads and the eviction iterator. It instantiates `CountMinSketch` as `CMS`.
  - **Container state:**
    - `lru`: three sequences, each listed head first.
    - `flags`: a set of flag names for each entry.
    - `updateTime`, `accessFreq`, `windowSize`, `maxWindowSize`, `capacity`, `lruRefreshTime`, `nextReconfigureTime`.
  - **Thread state:**
    - `now`: the clock.
    - `lock`: the spin lock's owner.
    - `pc`, `opNode`, `opTime`: each thread's call in progress and the time it read.
    - `iter`: the iterator's three positions.
  - **History variables** (used only by the properties):
    - `moved`: entries moved by `recordAccess` since they were last added.
    - `opWasAccessed`: the Accessed bit when the call began.
    - `walk` and `walkFrom`: what the iterator has yielded, and the lists when it was positioned.
  - **Handler structure.** Each locked handler is a pure record-to-record operator over `Cur`, the container state, composed in the code's order. For example, `AddLocked` is link, then mark, then `UpdateFrequenciesLocked`, then `DemoteTinyTail` or `MaybePromoteTailLocked`, then `MaybeGrowAccessCountersLocked`, then mark in container, stamp and unmark Accessed. The action commits the result with `Commit`.
  - **Atomic steps.** A locked body is one atomic step, guarded by `lock = NoThread` (or by the thread's own iterator lock). The code is split into separate steps only where it runs outside the lock:
    - `add` has two steps: `AddBegin` reads the time, then `Add` runs under the lock.
    - `recordAccess` has four. `RecordAccessBegin` covers the gate and the unlocked check (in container, refresh time expired or not yet accessed). `RecordAccessMark` is `markAccessed` and the read of `tryLockUpdate` (lines 848-852), still without the lock, so a remove, replace or eviction can fall between the check and the mark. Then either `RecordAccessTryLockFails` or `RecordAccess` runs (reconfigure, re-check, move, promote, stamp, count).
    - `withContainerLock` has two: `WithContainerLock` takes the lock, and `WithContainerLockReturn` releases it when the caller's function returns. The function has no handle on the container, and the lock is not re-entrant, so it changes nothing the model holds.
    - The read-only getters (`getStats`, `size`, `isEmpty`, `counterSize`, `getConfig`) take the lock for one atomic read. In this model they are stuttering steps.
    - Early returns are guards, or the branch that leaves the state unchanged.
- **`MMContainer.tla`** is the abstract contract any MM container gives the allocator. Its state is the set of `members`, the iterator `holder`, the threads `accessing` (inside `recordAccess`, from its passed unlocked check on) and a restore `epoch`.
  - `Insert`, `Delete` and `Swap` act on absent or present items, and only when no iterator is held.
  - The iterator holder can `Evict` present items.
  - An access starts and ends without changing membership, and so does `Restore`.
  - `MMWTinyLFU` refines it through `AbsMM == INSTANCE MMContainer WITH ...`. The mapping is: `members` are the items linked into any list, `holder` is the lock owner (an iterator or `withContainerLock`), `accessing` is the threads at `pc` `"mark"` or `"access"`, and `epoch` is `restarts`. `ImplementsMMContainer == AbsMM!Spec` is checked as a PROPERTY.
- **`opTryLock`** is the `config_.tryLockUpdate` a `recordAccess` read at line 852, taken at its mark step. The try-lock branch uses that read, not the current config, so a `setConfig` between the read and the lock attempt is modelled as the code has it.
- **Config and restart state.** `config` holds the config fields that can change at run time: `defaultLruRefreshTime`, `lruRefreshTime` and `tryLockUpdate`. The other fields are constants. `saveState` copies them unchanged. `setConfig` could change them too, but the model only passes it configs that differ in these three fields. A run-time change of the cap percentages or the window ratio is not modelled. `SetConfig` is `setConfig` under the lock, with its inputs from `ConfigChoices`.
- **`Restart`** is a shutdown with no call in flight: `saveState()` followed by the restoring constructor. It is built in steps:
  - `SaveState` gives the serialized object. Its `lruRefreshTime` is the live `lruRefreshTime_`, and it has no `tryLockUpdate`.
  - `ConfigFromSerialized` is `Config(SerializationConfigType)`. The unwritten `tryLockUpdate` field is either value, because its schema default is not in this repository.
  - `RestoredContainer` applies the saved lists, a zero-capacity sketch, then `maybeGrowAccessCountersLocked`. Items keep their flags and update times.
  - Restarts are bounded by `MaxRestarts`.
- **`EvictionAgeStat(c, curr, projectedLength)`** is `getEvictionAgeStatLocked` (lines 910-928): Main's size, the age of its tail, and the age `projectedLength` entries from the tail. `ReconfigureLocked` takes its `oldestElementAge`.
- **`MC_MMWTinyLFU.tla`** instantiates it for TLC:
  - Entries `e1`–`e4` and threads `t1`, `t2` are model values.
  - The sketch has one row with two columns. `e1` collides with `e3` and `e2` with `e4`, so counts are over-estimated as in the real sketch.
  - `ThreadSymmetry` permutes the threads. This is sound because no definition distinguishes one thread from another.

### Abstractions

- **Lists** (DList and MultiDList are not in the repository) are sequences. `linkAtHead`, `linkAtTail`, `remove`, `moveToHead` and `replace` become sequence operations.
- **Time** is a counter `now` in `0..MaxTime`. `TimeMax = MaxTime+1` stands for `numeric_limits<Time>::max()`: it is later than any reachable time, which is all the code uses it for.
- **Sketch size:** the sketch's size (`numCounters`) is fixed by the model, not by `maxWindowSize_`. Growth is modelled by what it does to the state: empty counters, `windowSize_ = 0`, and new `capacity_` and `maxWindowSize_`.
- **`lruRefreshRatio`** is the fraction `LruRefreshRatioNum / LruRefreshRatioDen`.
- **Scaled constants:** `kLruRefreshTimeCap` (900 in the code) and `kDefaultCapacity` (100 in the code) are constants scaled down to the model's clock and sizes.

## 3. Runs

Common settings:
- `updateOnRead` is on and `updateOnWrite` is off, so both branches of the mode gate are taken.
- `windowToCacheSizeRatio = 2`.
- `newcomerWinsOnTie`.
- `protectionFreq = 1`.

| Run | cfg | Bounds | Checks | Result |
|---|---|---|---|---|
| sequential | `MC_Sequential.cfg` | 1 thread, 3 entries, time 0..2 | `TypeOK`, `SegmentsConsistent`, `EvictionWalkComplete`, `CountersSizedForCapacity` | pass, about 3.3M states |
| concurrent | `MC_Concurrent.cfg` | 2 threads (symmetric), 2 entries, time 0..1, 2 setConfig choices (one turns `tryLockUpdate` on, one off) | `SegmentsConsistent`, `ImplementsMMContainer` | pass, about 840k states |
| trylock_trace | `MC_TryLockTrace.cfg` | 2 threads, 2 entries, `tryLockUpdate`, no setConfig | `TryLockFailureLeavesNoTrace` | violation |
| refresh_race | `MC_RefreshRace.cfg` | 2 threads, reconfigure off | `PromotedOncePerRefreshTime` | violation |
| main_cap | `MC_MainCap.cfg` | 1 thread, 3 entries, `tinySizePercent=1`, `protectionSegmentSizePct=34` | `MainCapAfterPromotion` | violation |
| tiny_cap | `MC_TinyCap.cfg` | 1 thread, 4 entries, `tinySizePercent=50` | `TinyCapAfterAdd` | violation |
| restart | `MC_Restart.cfg` | 1 thread, 2 entries, time 0..2, 2 setConfig choices, 1 restart, `protectionSegmentSizePct=100` | `CountersSizedForCapacity` | pass, about 400k states |
| restore_refresh_time | `MC_RestoreRefreshTime.cfg` | as restart, `defaultLruRefreshTime=0`, no setConfig | `RestoreKeepsDefaultRefreshTime` | violation |
| age_stat | `MC_AgeStat.cfg` | 1 thread, 3 entries, `tinySizePercent=1`, `protectionSegmentSizePct=100` | `OldestElementAgeIsOldest` | pass, about 1.8M states |
| age_stat_race | `MC_AgeStatRace.cfg` | 2 threads, 2 entries, `tinySizePercent=1`, `protectionSegmentSizePct=100` | `OldestElementAgeIsOldest` | violation |
| sketch_reference | `MC_CountMinSketch.cfg` | 3 keys, 2×2 table, 8 increments | `NeverUnderestimates`, `ExactWhenUnshared` | pass, about 1k states |

### What the passing runs show

- **`SegmentsConsistent`** holds through every interleaving of add, remove, replace, eviction and a `recordAccess` whose unlocked check went stale. It depends on the re-check under the lock: the mutant that drops it relinks a removed node.
- **`EvictionWalkComplete`** checks the order `getIter` gives a full walk: every entry once, each list from tail to head, Main after Tiny and Probation. It does not check the choice between the Tiny and Probation tails (the `admitToProbation` tie-break). If `remove(it)` unlinked before advancing, TLC would stop with an evaluation error in `IterIncrement`, not on this property.
- **`CountersSizedForCapacity`** checks the growth threshold and the exact-equality decay trigger. In the restart run it also checks the sketch that the restoring constructor rebuilds from `capacity_ = 0`.
- **`ImplementsMMContainer`** is the refinement. It checks that the container changes only the items the allocator's calls name. A `recordAccess` whose unlocked check went stale never relinks a removed item. The mutant that drops the re-check under the lock breaks it. It is checked in the concurrent run only: a restart copies the lists unchanged, so the contract holds across it by construction.
- **`ImplementsMMContainer` and `SegmentsConsistent` with setConfig** (concurrent). The run covers blocking and try-lock accesses, because setConfig switches `tryLockUpdate` both ways. setConfig can land between another thread's unlocked check and its locked part. It can flip `tryLockUpdate` and reset the refresh times and `nextReconfigureTime_` under that thread. The structure and the contract survive every such order.
- **`OldestElementAgeIsOldest`** (age_stat). With one caller, Main stays ordered by `updateTime`, so the tail age is the largest age at every projected length. The mutant that links a promoted entry at Main's tail breaks it.
- **`NeverUnderestimates` and `ExactWhenUnshared`** (sketch_reference). Collisions and halvings never make `getCount` report less than the true decayed count. A key with an unshared counter is counted exactly. The first fails if `increment` misses a row. The second fails if `getCount` takes the largest counter instead of the smallest.
- The restart run uses `protectionSegmentSizePct=100`. With two entries, any lower cap demotes every promoted item straight back. At 100, Main is populated, so reconfigure sees a real tail age. The demotion path itself is covered by the sequential run.

### Why the bounds are enough

- **Three entries** are enough to fill all three lists at once, to swap the Tiny and Probation tails and to demote a Main tail.
- **Two entries with two threads** are enough for one thread's access to race another thread's remove, replace or iterator.
- **A clock of 0..2** (0..1 in the concurrent run) lets the refresh time expire once and lets reconfigure run. In the concurrent run, 0..1 is enough for two threads to read different times before the lock.
- **The hash collision** makes admission decisions depend on other entries' counts.

### Findings

The violation runs are divergences between the code and the spec or comments. `PROJECT.json` has the full text of each.

1. A failed `try_lock` leaves the Accessed bit set (line 849).
2. Two threads can both promote one entry within one refresh time (line 845).
3. After a promotion, a single `if` leaves Main above its cap (line 885).
4. After an add, a single `if` leaves Tiny above its cap (line 991).
5. `saveState` stores the reconfigured `lruRefreshTime_`, and restore makes it the new `defaultLruRefreshTime`. That value is reconfigure's lower bound, so the raise becomes permanent (lines 1128 and 94).
6. `recordAccess` stamps an entry with the time it read before the lock (lines 842 and 895). Two accesses that take the lock in the opposite order of their reads leave Main out of `updateTime` order. The tail age that `getEvictionAgeStatLocked` reports (line 918), and that reconfigure turns into `lruRefreshTime`, is then not the oldest age. The spec calls it the oldest element age without qualification.

## 4. Fairness

No run assumes fairness, and no liveness property is checked. Callers are preemptively scheduled threads (spec 5), but the spin lock gives no order among waiters. So under any fairness the code justifies, a blocking `add` or `recordAccess` can starve behind a thread that keeps re-taking the lock. Only strong fairness of each waiter would rule that out, and the spin lock does not give it. In try-lock mode a call always returns, but that follows from the two complementary guards of the branch at lines 852-858, so a run would show nothing.

## 5. Not modelled, and the plan

Not modelled yet:
- `saveState` running concurrently with other calls. It takes no lock.
- `saveState` writes no `tryLockUpdate` (line 1127). The restored value is the schema default of `MMTinyLFUObject`, which is not in this repository, so the model restores either value and checks nothing about it.
- A torn read of `config_` while `setConfig` copies it. The model reads each field atomically.
- The values `getStats` reports. Its tail is `lru_.rbegin()` of the MultiDList, whose list order is not in this repository. `getEvictionAgeStat` is modelled.
- A caller's function that calls the container under `withContainerLock` or an iterator. The spin lock is not re-entrant, so that is a self-deadlock of the caller (spec 5), not a behaviour of the container.
- CountMinSketch and the DList/MultiDList lists beyond what the spec says of them. Their sources are not in this repository.
- Sketch saturation.
- A clock that steps backwards. With it, the 32-bit `curr - updateTime` at line 919 wraps.

What remains is out of faithful reach. The unlocked `saveState` and the torn `config_` copy are data races with undefined outcomes. A backwards clock contradicts the spec's monotonic `updateTime` (spec 3). Sketch saturation and the list internals live in files this repository does not have. Extending the abstract contract with the eviction order would restate `EvictionWalkComplete`, which the sequential run already checks.
