------------------------------ MODULE MMWTinyLFU ------------------------------
(***************************************************************************)
(* MMWTinyLFU::Container (src/cachelib/allocator/MMWTinyLFU.h): the three  *)
(* LRU segments Tiny, Probation and Main, the per-entry flag bits, the     *)
(* count-min sketch that arbitrates admission, the refresh-time gate of    *)
(* recordAccess and the lock-holding eviction iterator, driven by several  *)
(* caller threads.                                                         *)
(*                                                                         *)
(* Every operation that runs entirely under lruMutex_ (add's body,         *)
(* remove, replace, the locked half of recordAccess) is one atomic step:   *)
(* all its mutations happen with the lock held.  What runs outside the     *)
(* lock is a step of its own: the time read at the start of add, and the   *)
(* unlocked check-and-markAccessed at the start of recordAccess.  The only *)
(* caller that holds the lock across several steps is the eviction         *)
(* iterator, which is what a try-lock in recordAccess can fail against.    *)
(*                                                                         *)
(* A list is a sequence with its head at index 1 and its tail last.        *)
(***************************************************************************)
EXTENDS Naturals, Sequences, SequencesExt, FiniteSets

CONSTANTS
    Entries,                    \* the cached items (model values)
    Threads,                    \* caller threads of the allocator
    NoNode, NoThread,           \* sentinels: an exhausted iterator, a free lock
    MaxTime,                    \* bound on the clock (seconds)
    \* Config (MMWTinyLFU::Config)
    DefaultLruRefreshTime,      \* the constructor's defaultLruRefreshTime
    LruRefreshRatioNum,         \* lruRefreshRatio = Num / Den
    LruRefreshRatioDen,
    UpdateOnWrite, UpdateOnRead,
    TryLockUpdate,              \* the constructor's tryLockUpdate
    WindowToCacheSizeRatio,
    TinySizePercent,
    MMReconfigureIntervalSecs,
    NewcomerWinsOnTie,
    ProtectionFreq,             \* protectionFreq_
    ProtectionSegmentSizePct,
    \* class constants, scaled down with the model
    kDefaultCapacity,
    kLruRefreshTimeCap,
    \* the sketch
    Rows, Cols, Hash,
    \* the environment
    ConfigChoices,              \* the configs a caller may pass to setConfig
    MaxRestarts                 \* bound on saveState/restore cycles

\* Config::checkConfig(): the constructor throws unless these hold; the
\* other fields (protectionSegmentSizePct among them) are not checked.
CheckConfig ==
    /\ TinySizePercent \in 1..50
    /\ WindowToCacheSizeRatio \in 2..128

ASSUME CheckConfig
ASSUME LruRefreshRatioDen > 0
ASSUME NoNode \notin Entries /\ NoThread \notin Threads

CMS == INSTANCE CountMinSketch

\* numeric_limits<Time>::max(): "never reconfigure".  It is only compared
\* with clock readings, so any time past the bounded clock stands for it.
TimeMax == MaxTime + 1

LruTypes == {"Main", "Probation", "Tiny"}
AccessModes == {"kRead", "kWrite"}

\* The node flag bits the container uses: kMMFlag0 (Tiny), kMMFlag1
\* (Accessed), kMMFlag2 (Probation), and the item's in-MM-container bit.
Tiny == "Tiny"
Accessed == "Accessed"
Probation == "Probation"
InMM == "InMMContainer"

VARIABLES
    lru,                  \* lru_: [LruTypes -> Seq(Entries)]
    flags,                \* per entry: its flag bits
    updateTime,           \* per entry: the hook's update time
    accessFreq,           \* accessFreq_: the sketch table
    windowSize,           \* windowSize_
    maxWindowSize,        \* maxWindowSize_
    capacity,             \* capacity_
    lruRefreshTime,       \* lruRefreshTime_
    nextReconfigureTime,  \* nextReconfigureTime_
    config,               \* config_: the fields setConfig and restore can change
    restarts,             \* saveState/restore cycles so far (bounded)
    now,                  \* util::getCurrentTimeSec()
    lock,                 \* lruMutex_: its holder, or NoThread
    pc,                   \* per thread: where it is in a call
    opNode,               \* per thread: the node of the call in progress
    opTime,               \* per thread: the time the call read before locking
    opTryLock,            \* per thread: config_.tryLockUpdate as recordAccess read it
    iter,                 \* LockedIterator: [LruTypes -> Entries \cup {NoNode}]
    \* history variables, used only by properties
    moved,                \* entries moved by recordAccess since they were added
    opWasAccessed,        \* per thread: node's Accessed bit when the call began
    walk,                 \* the nodes the live iterator has yielded, in order
    walkFrom              \* lru_ when the live iterator was positioned

containerVars == <<lru, flags, updateTime, accessFreq, windowSize,
                   maxWindowSize, capacity, lruRefreshTime, nextReconfigureTime,
                   config>>
threadVars == <<lock, pc, opNode, opTime, opTryLock, iter>>
ghostVars == <<moved, opWasAccessed, walk, walkFrom>>
vars == <<containerVars, now, restarts, threadVars, ghostVars>>

-----------------------------------------------------------------------------
(* The container's state as one record, so that a handler can be written  *)
(* as the composition of the helpers it calls, in the code's order.        *)
Cur == [lru |-> lru, flags |-> flags, updateTime |-> updateTime,
        accessFreq |-> accessFreq, windowSize |-> windowSize,
        maxWindowSize |-> maxWindowSize, capacity |-> capacity,
        lruRefreshTime |-> lruRefreshTime,
        nextReconfigureTime |-> nextReconfigureTime, config |-> config]

Commit(c) ==
    /\ lru' = c.lru
    /\ flags' = c.flags
    /\ updateTime' = c.updateTime
    /\ accessFreq' = c.accessFreq
    /\ windowSize' = c.windowSize
    /\ maxWindowSize' = c.maxWindowSize
    /\ capacity' = c.capacity
    /\ lruRefreshTime' = c.lruRefreshTime
    /\ nextReconfigureTime' = c.nextReconfigureTime
    /\ config' = c.config

\* lru_.size()
SizeOf(c) == Len(c.lru.Main) + Len(c.lru.Probation) + Len(c.lru.Tiny)

GetTail(s) == IF s = <<>> THEN NoNode ELSE Last(s)

\* getLruType(node): Tiny if kMMFlag0, else Probation if kMMFlag2, else Main.
GetLruType(c, n) ==
    IF Tiny \in c.flags[n] THEN "Tiny"
    ELSE IF Probation \in c.flags[n] THEN "Probation" ELSE "Main"

\* Mutant: Main is given a flag bit of its own.
SegmentFlagMainToo(lt) == {lt}

\* The flag bit that marks membership of a segment (Main has none).
SegmentFlag(lt) == IF lt = "Main" THEN {} ELSE {lt}

\* admitToProbation(tinyNode, mainNode)
AdmitToProbation(c, tinyNode, mainNode) ==
    LET tinyFreq == CMS!GetCount(c.accessFreq, tinyNode)
        mainFreq == CMS!GetCount(c.accessFreq, mainNode)
    IN  IF NewcomerWinsOnTie THEN tinyFreq >= mainFreq ELSE tinyFreq > mainFreq

\* updateFrequenciesLocked(node): count the access and halve every counter
\* (and the window) when the window is full.
UpdateFrequenciesLocked(c, n) ==
    LET tbl == CMS!Increment(c.accessFreq, n)
        ws  == c.windowSize + 1
    IN  IF ws = c.maxWindowSize
        THEN [c EXCEPT !.accessFreq = CMS!DecayCountsBy(tbl), !.windowSize = ws \div 2]
        ELSE [c EXCEPT !.accessFreq = tbl, !.windowSize = ws]

\* Mutant: the growth test is off by one (>= instead of >).
MaybeGrowAccessCountersLockedLate(c) ==
    LET size == SizeOf(c)
        cap  == Max({size, kDefaultCapacity})
    IN  IF 2 * c.capacity >= size THEN c
        ELSE [c EXCEPT !.capacity = cap,
                       !.windowSize = 0,
                       !.maxWindowSize = cap * WindowToCacheSizeRatio,
                       !.accessFreq = CMS!EmptyTable]

\* maybeGrowAccessCountersLocked(): rebuild an empty sketch sized for the
\* current size once the size reaches twice the capacity it was sized for.
MaybeGrowAccessCountersLocked(c) ==
    LET size == SizeOf(c)
        cap  == Max({size, kDefaultCapacity})
    IN  IF 2 * c.capacity > size THEN c
        ELSE [c EXCEPT !.capacity = cap,
                       !.windowSize = 0,
                       !.maxWindowSize = cap * WindowToCacheSizeRatio,
                       !.accessFreq = CMS!EmptyTable]

\* Mutant: the swap forgets markProbation(*tinyNode).
MaybePromoteTailLockedNoMark(c) ==
    LET probationNode == GetTail(c.lru.Probation)
        tinyNode      == GetTail(c.lru.Tiny)
    IN  IF probationNode = NoNode \/ tinyNode = NoNode THEN c
        ELSE IF AdmitToProbation(c, tinyNode, probationNode)
        THEN [c EXCEPT !.lru.Tiny = Append(Front(@), probationNode),
                       !.lru.Probation = <<tinyNode>> \o Front(@),
                       !.flags[tinyNode] = @ \ {Tiny},
                       !.flags[probationNode] = (@ \ {Probation}) \cup {Tiny}]
        ELSE [c EXCEPT !.lru.Probation = <<probationNode>> \o Front(@)]

\* maybePromoteTailLocked(): swap the Tiny and Probation tails when the Tiny
\* tail is admitted, otherwise rotate the Probation tail to its head.
MaybePromoteTailLocked(c) ==
    LET probationNode == GetTail(c.lru.Probation)
        tinyNode      == GetTail(c.lru.Tiny)
    IN  IF probationNode = NoNode \/ tinyNode = NoNode THEN c
        ELSE IF AdmitToProbation(c, tinyNode, probationNode)
        THEN [c EXCEPT !.lru.Tiny = Append(Front(@), probationNode),
                       !.lru.Probation = <<tinyNode>> \o Front(@),
                       !.flags[tinyNode] = (@ \ {Tiny}) \cup {Probation},
                       !.flags[probationNode] = (@ \ {Probation}) \cup {Tiny}]
        ELSE [c EXCEPT !.lru.Probation = <<probationNode>> \o Front(@)]

\* The Tiny-cap branch of add: move Tiny's tail to the head of Probation.
DemoteTinyTail(c) ==
    LET tailNode == Last(c.lru.Tiny)
    IN  [c EXCEPT !.lru.Tiny = Front(@),
                  !.lru.Probation = <<tailNode>> \o @,
                  !.flags[tailNode] = (@ \ {Tiny}) \cup {Probation}]

\* add(node), after the lock is taken and node is known to be absent.
AddLocked(c, n, currTime) ==
    LET c1 == [c EXCEPT !.lru.Tiny = <<n>> \o @, !.flags[n] = @ \cup {Tiny}]
        c2 == UpdateFrequenciesLocked(c1, n)
        expectedSize == (TinySizePercent * SizeOf(c2)) \div 100
        c3 == IF Len(c2.lru.Tiny) > expectedSize
              THEN DemoteTinyTail(c2) ELSE MaybePromoteTailLocked(c2)
        c4 == MaybeGrowAccessCountersLocked(c3)
    IN  [c4 EXCEPT !.flags[n] = (@ \cup {InMM}) \ {Accessed},
                   !.updateTime[n] = currTime]

\* removeLocked(node)
RemoveLocked(c, n) ==
    LET lt == GetLruType(c, n)
    IN  [c EXCEPT !.lru[lt] = Remove(@, n),
                  !.flags[n] = @ \ (SegmentFlag(lt) \cup {Accessed, InMM})]

\* replace(oldNode, newNode), once its guards have passed: newNode takes
\* oldNode's place, segment bit, update time and Accessed bit.
ReplaceLocked(c, old, new) ==
    LET lt == GetLruType(c, old)
    IN  [c EXCEPT !.lru[lt] = ReplaceAll(@, old, new),
                  !.flags[old] = @ \ (SegmentFlag(lt) \cup {InMM}),
                  !.flags[new] = ((@ \ {Accessed}) \cup SegmentFlag(lt) \cup {InMM})
                                   \cup (c.flags[old] \cap {Accessed}),
                  !.updateTime[new] = c.updateTime[old]]

\* getEvictionAgeStatLocked(projectedLength): the warm queue (Main) stat,
\* by a clock reading of its own (curr).  The oldest age is that of Main's
\* tail; the projected age that of the entry projectedLength steps from the
\* tail towards the head, or the oldest age if Main is shorter than that.
EvictionAgeStat(c, curr, projectedLength) ==
    LET main == c.lru.Main
        oldest == IF main = <<>> THEN 0 ELSE curr - c.updateTime[Last(main)]
        pos == Len(main) - projectedLength
    IN  [oldestElementAge |-> oldest,
         size |-> Len(main),
         projectedAge |-> IF pos >= 1 THEN curr - c.updateTime[main[pos]] ELSE oldest]

\* reconfigureLocked(currTime); the eviction-age stat reads the clock itself
\* (statTime).
ReconfigureLocked(c, currTime, statTime) ==
    LET oldestElementAge == EvictionAgeStat(c, statTime, 0).oldestElementAge
        refresh == Min({Max({c.config.defaultLruRefreshTime,
                             (oldestElementAge * LruRefreshRatioNum) \div LruRefreshRatioDen}),
                        kLruRefreshTimeCap})
    IN  IF currTime < c.nextReconfigureTime THEN c
        ELSE [c EXCEPT !.nextReconfigureTime = currTime + MMReconfigureIntervalSecs,
                       !.lruRefreshTime = refresh]

\* Mutant: the promoted node is linked at Main's tail.
PromoteToMainAtTail(c, n) ==
    LET c1 == [c EXCEPT !.lru.Probation = Remove(@, n),
                        !.lru.Main = @ \o <<n>>,
                        !.flags[n] = @ \ {Probation}]
        totalMainSize == Len(c1.lru.Probation) + Len(c1.lru.Main)
        expectedMainSize == (ProtectionSegmentSizePct * totalMainSize) \div 100
        mainTail == Last(c1.lru.Main)
    IN  IF Len(c1.lru.Main) > expectedMainSize
        THEN [c1 EXCEPT !.lru.Main = Front(@),
                        !.lru.Probation = Append(@, mainTail),
                        !.flags[mainTail] = @ \cup {Probation}]
        ELSE c1

\* The promotion branch of recordAccess: Probation -> head of Main, then at
\* most one demotion of Main's tail to the tail of Probation.
PromoteToMain(c, n) ==
    LET c1 == [c EXCEPT !.lru.Probation = Remove(@, n),
                        !.lru.Main = <<n>> \o @,
                        !.flags[n] = @ \ {Probation}]
        totalMainSize == Len(c1.lru.Probation) + Len(c1.lru.Main)
        expectedMainSize == (ProtectionSegmentSizePct * totalMainSize) \div 100
        mainTail == Last(c1.lru.Main)
    IN  IF Len(c1.lru.Main) > expectedMainSize
        THEN [c1 EXCEPT !.lru.Main = Front(@),
                        !.lru.Probation = Append(@, mainTail),
                        !.flags[mainTail] = @ \cup {Probation}]
        ELSE c1

\* The part of recordAccess(node) run under the lock, after reconfigure and
\* the in-container re-check: move to head, maybe promote, stamp, count.
RecordAccessLocked(c, n, curr) ==
    LET lt == GetLruType(c, n)
        c1 == [c EXCEPT !.lru[lt] = <<n>> \o Remove(@, n)]
        c2 == IF lt = "Probation" /\ CMS!GetCount(c1.accessFreq, n) > ProtectionFreq
              THEN PromoteToMain(c1, n) ELSE c1
    IN  UpdateFrequenciesLocked([c2 EXCEPT !.updateTime[n] = curr], n)

\* Mutant: with Probation exhausted, Main is preferred over Tiny.
GetIterMainFirst(c, it) ==
    LET t == it.Tiny # NoNode
        p == it.Probation # NoNode
        m == it.Main # NoNode
    IN  IF ~p /\ ~m THEN "Tiny"
        ELSE IF ~p /\ ~t THEN "Main"
        ELSE IF ~t /\ ~m THEN "Probation"
        ELSE IF ~p THEN "Main"
        ELSE IF ~t THEN "Probation"
        ELSE IF ~AdmitToProbation(c, it.Tiny, it.Probation) THEN "Tiny" ELSE "Probation"

\* LockedIterator::getIter(): which of the three reverse iterators is
\* current.
GetIter(c, it) ==
    LET t == it.Tiny # NoNode
        p == it.Probation # NoNode
        m == it.Main # NoNode
    IN  IF ~p /\ ~m THEN "Tiny"
        ELSE IF ~p /\ ~t THEN "Main"
        ELSE IF ~t /\ ~m THEN "Probation"
        ELSE IF ~p THEN "Tiny"
        ELSE IF ~t THEN "Probation"
        ELSE IF ~AdmitToProbation(c, it.Tiny, it.Probation) THEN "Tiny" ELSE "Probation"

\* operator bool()
IterValid(it) == \E lt \in LruTypes : it[lt] # NoNode

\* Each reverse iterator positioned at its list's tail (rbegin()).
IterBegin(c) == [lt \in LruTypes |-> GetTail(c.lru[lt])]

\* ++ on the current reverse iterator: step towards the head.
IterIncrement(c, it) ==
    LET lt == GetIter(c, it)
        s  == c.lru[lt]
        i  == CHOOSE j \in DOMAIN s : s[j] = it[lt]
    IN  [it EXCEPT ![lt] = IF i = 1 THEN NoNode ELSE s[i - 1]]

\* nextReconfigureTime_ as the constructors and setConfig set it.
FirstReconfigureTime(currTime) ==
    IF MMReconfigureIntervalSecs = 0 THEN TimeMax
    ELSE currTime + MMReconfigureIntervalSecs

\* saveState(): the serialized object.  Its config's lruRefreshTime is the
\* live lruRefreshTime_, not config_'s; tryLockUpdate is never written (and
\* defaultLruRefreshTime has no field of its own).  The lists are saved in
\* order.  The sketch is not saved.
SaveState(c) ==
    [config |-> [lruRefreshTime |-> c.lruRefreshTime],
     lrus   |-> c.lru]

\* Config(SerializationConfigType): both refresh-time fields come from the
\* saved lruRefreshTime; tryLockUpdate is whatever the unwritten field of
\* the object holds (its schema default, which is outside this repository).
ConfigFromSerialized(obj, unsetTryLock) ==
    [defaultLruRefreshTime |-> obj.config.lruRefreshTime,
     lruRefreshTime |-> obj.config.lruRefreshTime,
     tryLockUpdate |-> unsetTryLock]

\* Mutant: the restoring constructor does not size the sketch.
RestoredContainerNoGrow(c, obj, unsetTryLock, currTime) ==
    LET cfg == ConfigFromSerialized(obj, unsetTryLock)
    IN  [c EXCEPT !.lru = obj.lrus, !.config = cfg,
                  !.accessFreq = CMS!EmptyTable,
                  !.windowSize = 0, !.maxWindowSize = 0, !.capacity = 0,
                  !.lruRefreshTime = cfg.lruRefreshTime,
                  !.nextReconfigureTime = FirstReconfigureTime(currTime)]

\* Container(MMTinyLFUObject, compressor): the lists as saved, the nodes'
\* hooks and flags as they are in the (surviving) item memory, a default
\* sketch with zero capacity that maybeGrowAccessCountersLocked() rebuilds.
RestoredContainer(c, obj, unsetTryLock, currTime) ==
    LET cfg == ConfigFromSerialized(obj, unsetTryLock)
    IN  MaybeGrowAccessCountersLocked(
          [c EXCEPT !.lru = obj.lrus,
                    !.config = cfg,
                    !.accessFreq = CMS!EmptyTable,
                    !.windowSize = 0, !.maxWindowSize = 0, !.capacity = 0,
                    !.lruRefreshTime = cfg.lruRefreshTime,
                    !.nextReconfigureTime = FirstReconfigureTime(currTime)])

\* setConfig(c) under the lock.
SetConfigLocked(c, cfg, currTime) ==
    [c EXCEPT !.config = cfg,
              !.lruRefreshTime = cfg.lruRefreshTime,
              !.nextReconfigureTime = FirstReconfigureTime(currTime)]

-----------------------------------------------------------------------------
Init ==
    /\ lru = [lt \in LruTypes |-> <<>>]
    /\ flags = [n \in Entries |-> {}]
    /\ updateTime = [n \in Entries |-> 0]
    \* the constructor: maybeGrowAccessCountersLocked() on an empty list
    /\ capacity = kDefaultCapacity
    /\ windowSize = 0
    /\ maxWindowSize = kDefaultCapacity * WindowToCacheSizeRatio
    /\ accessFreq = CMS!EmptyTable
    /\ config = [defaultLruRefreshTime |-> DefaultLruRefreshTime,
                 lruRefreshTime |-> DefaultLruRefreshTime,
                 tryLockUpdate |-> TryLockUpdate]
    /\ lruRefreshTime = config.lruRefreshTime
    /\ restarts = 0
    /\ nextReconfigureTime = FirstReconfigureTime(0)
    /\ now = 0
    /\ lock = NoThread
    /\ pc = [t \in Threads |-> "idle"]
    /\ opNode = [t \in Threads |-> NoNode]
    /\ opTime = [t \in Threads |-> 0]
    /\ opTryLock = [t \in Threads |-> FALSE]
    /\ iter = [lt \in LruTypes |-> NoNode]
    /\ moved = {}
    /\ opWasAccessed = [t \in Threads |-> FALSE]
    /\ walk = <<>>
    /\ walkFrom = [lt \in LruTypes |-> <<>>]

\* The clock advances.
Tick ==
    /\ now < MaxTime
    /\ now' = now + 1
    /\ UNCHANGED <<containerVars, restarts, threadVars, ghostVars>>

\* add(node): the time is read before the lock is taken.
AddBegin(t, n) ==
    /\ pc[t] = "idle"
    /\ pc' = [pc EXCEPT ![t] = "add"]
    /\ opNode' = [opNode EXCEPT ![t] = n]
    /\ opTime' = [opTime EXCEPT ![t] = now]
    /\ UNCHANGED <<containerVars, now, restarts, lock, opTryLock, iter, ghostVars>>

\* add(node) under the lock; returns false if node is already present.
Add(t) ==
    LET n == opNode[t] IN
    /\ pc[t] = "add"
    /\ lock = NoThread
    /\ IF InMM \in flags[n]
       THEN UNCHANGED <<containerVars, moved>>
       ELSE /\ Commit(AddLocked(Cur, n, opTime[t]))
            /\ moved' = moved \ {n}
    /\ pc' = [pc EXCEPT ![t] = "idle"]
    /\ opNode' = [opNode EXCEPT ![t] = NoNode]
    /\ opTime' = [opTime EXCEPT ![t] = 0]
    /\ UNCHANGED <<now, restarts, lock, opTryLock, iter, opWasAccessed, walk, walkFrom>>

\* remove(node); a node that is not present is left alone (returns false).
RemoveNode(t, n) ==
    /\ pc[t] = "idle"
    /\ lock = NoThread
    /\ InMM \in flags[n]
    /\ Commit(RemoveLocked(Cur, n))
    /\ moved' = moved \ {n}
    /\ UNCHANGED <<now, restarts, threadVars, opWasAccessed, walk, walkFrom>>

\* replace(oldNode, newNode) when its guards pass.
Replace(t, old, new) ==
    /\ pc[t] = "idle"
    /\ lock = NoThread
    /\ flags[new] \cap {Tiny, Probation} = {}
    /\ InMM \in flags[old]
    /\ InMM \notin flags[new]
    /\ Commit(ReplaceLocked(Cur, old, new))
    /\ moved' = IF old \in moved THEN (moved \ {old}) \cup {new} ELSE moved \ {new}
    /\ UNCHANGED <<now, restarts, threadVars, opWasAccessed, walk, walkFrom>>

\* recordAccess(node, mode), the part before the lock: the mode gate and the
\* unlocked check of the in-container bit and the refresh time.  When it
\* fails the call returns false without a state change (a stuttering step).
RecordAccessBegin(t, n, mode) ==
    /\ pc[t] = "idle"
    /\ \/ mode = "kWrite" /\ UpdateOnWrite
       \/ mode = "kRead" /\ UpdateOnRead
    /\ InMM \in flags[n]
    /\ now >= updateTime[n] + lruRefreshTime \/ Accessed \notin flags[n]
    /\ pc' = [pc EXCEPT ![t] = "mark"]
    /\ opNode' = [opNode EXCEPT ![t] = n]
    /\ opTime' = [opTime EXCEPT ![t] = now]
    /\ UNCHANGED <<containerVars, now, restarts, lock, opTryLock, iter, ghostVars>>

\* if (!isAccessed(node)) markAccessed(node), then the read of
\* config_.tryLockUpdate that picks try_lock or lock: still without the
\* lock, so the node may have been removed or replaced since the check, and
\* a setConfig may land between this read and the lock attempt.
RecordAccessMark(t) ==
    LET n == opNode[t] IN
    /\ pc[t] = "mark"
    /\ flags' = [flags EXCEPT ![n] = @ \cup {Accessed}]
    /\ pc' = [pc EXCEPT ![t] = "access"]
    /\ opWasAccessed' = [opWasAccessed EXCEPT ![t] = Accessed \in flags[n]]
    /\ opTryLock' = [opTryLock EXCEPT ![t] = config.tryLockUpdate]
    /\ UNCHANGED <<lru, updateTime, accessFreq, windowSize, maxWindowSize,
                   capacity, lruRefreshTime, nextReconfigureTime, config,
                   now, restarts, lock, opNode, opTime,
                   iter, moved, walk, walkFrom>>

\* Leaving recordAccess: clear the thread's call state.
EndAccess(t) ==
    /\ pc' = [pc EXCEPT ![t] = "idle"]
    /\ opNode' = [opNode EXCEPT ![t] = NoNode]
    /\ opTime' = [opTime EXCEPT ![t] = 0]
    /\ opTryLock' = [opTryLock EXCEPT ![t] = FALSE]
    /\ opWasAccessed' = [opWasAccessed EXCEPT ![t] = FALSE]

\* recordAccess with tryLockUpdate: try_lock fails, the call returns false.
RecordAccessTryLockFails(t) ==
    /\ pc[t] = "access"
    /\ opTryLock[t]
    /\ lock # NoThread
    /\ EndAccess(t)
    /\ UNCHANGED <<containerVars, now, restarts, lock, iter, moved, walk, walkFrom>>

\* Mutant: the in-container re-check under the lock is dropped.
RecordAccessNoRecheck(t) ==
    LET n  == opNode[t]
        c1 == ReconfigureLocked(Cur, opTime[t], now)
    IN
    /\ pc[t] = "access"
    /\ lock = NoThread
    /\ Commit(RecordAccessLocked(c1, n, opTime[t]))
    /\ moved' = moved \cup {n}
    /\ EndAccess(t)
    /\ UNCHANGED <<now, restarts, lock, iter, walk, walkFrom>>

\* recordAccess under the lock: reconfigure, re-check the node is present,
\* then move/promote/stamp/count.
RecordAccess(t) ==
    LET n  == opNode[t]
        c1 == ReconfigureLocked(Cur, opTime[t], now)
    IN
    /\ pc[t] = "access"
    /\ lock = NoThread
    /\ IF InMM \in c1.flags[n]
       THEN /\ Commit(RecordAccessLocked(c1, n, opTime[t]))
            /\ moved' = moved \cup {n}
       ELSE /\ Commit(c1)
            /\ UNCHANGED moved
    /\ EndAccess(t)
    /\ UNCHANGED <<now, restarts, lock, iter, walk, walkFrom>>

\* getEvictionIterator(): take the lock and position at the three tails.
GetEvictionIterator(t) ==
    /\ pc[t] = "idle"
    /\ lock = NoThread
    /\ lock' = t
    /\ pc' = [pc EXCEPT ![t] = "iter"]
    /\ iter' = IterBegin(Cur)
    /\ walk' = <<>>
    /\ walkFrom' = lru
    /\ UNCHANGED <<containerVars, now, restarts, opNode, opTime, opTryLock, moved, opWasAccessed>>

\* ++it: skip the current candidate.
IterNext(t) ==
    /\ pc[t] = "iter"
    /\ IterValid(iter)
    /\ iter' = IterIncrement(Cur, iter)
    /\ walk' = Append(walk, iter[GetIter(Cur, iter)])
    /\ UNCHANGED <<containerVars, now, restarts, lock, pc, opNode, opTime, opTryLock, moved,
                   opWasAccessed, walkFrom>>

\* remove(it): advance the iterator, then remove the node it pointed at.
IterRemove(t) ==
    LET n == iter[GetIter(Cur, iter)] IN
    /\ pc[t] = "iter"
    /\ IterValid(iter)
    /\ iter' = IterIncrement(Cur, iter)
    /\ Commit(RemoveLocked(Cur, n))
    /\ moved' = moved \ {n}
    /\ walk' = Append(walk, n)
    /\ UNCHANGED <<now, restarts, lock, pc, opNode, opTime, opTryLock, opWasAccessed, walkFrom>>

\* destroy(): invalidate the iterator and release the lock.
IterDestroy(t) ==
    /\ pc[t] = "iter"
    /\ lock' = NoThread
    /\ iter' = [lt \in LruTypes |-> NoNode]
    /\ pc' = [pc EXCEPT ![t] = "released"]
    /\ walk' = <<>>
    /\ walkFrom' = [lt \in LruTypes |-> <<>>]
    /\ UNCHANGED <<containerVars, now, restarts, opNode, opTime, opTryLock, moved, opWasAccessed>>

\* resetToBegin(): take the lock again if it was released, rewind.
IterResetToBegin(t) ==
    /\ \/ pc[t] = "iter"
       \/ pc[t] = "released" /\ lock = NoThread
    /\ lock' = t
    /\ pc' = [pc EXCEPT ![t] = "iter"]
    /\ iter' = IterBegin(Cur)
    /\ walk' = <<>>
    /\ walkFrom' = lru
    /\ UNCHANGED <<containerVars, now, restarts, opNode, opTime, opTryLock, moved, opWasAccessed>>

\* The released iterator goes out of scope.
IterDrop(t) ==
    /\ pc[t] = "released"
    /\ pc' = [pc EXCEPT ![t] = "idle"]
    /\ UNCHANGED <<containerVars, now, restarts, lock, opNode, opTime, opTryLock, iter, ghostVars>>

\* withContainerLock(fun): take the lock and run the caller's function.
\* The function gets no handle on the container and cannot call it (the
\* spin lock is not re-entrant), so it changes nothing the model holds.
WithContainerLock(t) ==
    /\ pc[t] = "idle"
    /\ lock = NoThread
    /\ lock' = t
    /\ pc' = [pc EXCEPT ![t] = "locked"]
    /\ UNCHANGED <<containerVars, now, restarts, opNode, opTime, opTryLock, iter, ghostVars>>

\* fun() returns and the LockHolder goes out of scope.
WithContainerLockReturn(t) ==
    /\ pc[t] = "locked"
    /\ lock' = NoThread
    /\ pc' = [pc EXCEPT ![t] = "idle"]
    /\ UNCHANGED <<containerVars, now, restarts, opNode, opTime, opTryLock, iter, ghostVars>>

\* setConfig(c): takes the lock (so not while an iterator is alive).
SetConfig(t, cfg) ==
    /\ pc[t] = "idle"
    /\ lock = NoThread
    /\ Commit(SetConfigLocked(Cur, cfg, now))
    /\ UNCHANGED <<now, restarts, threadVars, ghostVars>>

\* The cache is shut down with saveState() and brought back with the
\* restoring constructor.  Shutdown happens with no container call in
\* flight; the items, with their hooks and flag bits, survive.
Restart ==
    /\ restarts < MaxRestarts
    /\ \A t \in Threads : pc[t] = "idle"
    /\ lock = NoThread
    /\ \E unsetTryLock \in BOOLEAN :
          Commit(RestoredContainer(Cur, SaveState(Cur), unsetTryLock, now))
    /\ restarts' = restarts + 1
    /\ UNCHANGED <<now, threadVars, ghostVars>>

Next ==
    \/ Tick
    \/ Restart
    \/ \E t \in Threads, cfg \in ConfigChoices : SetConfig(t, cfg)
    \/ \E t \in Threads :
          \/ \E n \in Entries : AddBegin(t, n)
          \/ Add(t)
          \/ \E n \in Entries : RemoveNode(t, n)
          \/ \E old, new \in Entries : Replace(t, old, new)
          \/ \E n \in Entries, mode \in AccessModes : RecordAccessBegin(t, n, mode)
          \/ RecordAccessMark(t)
          \/ RecordAccessTryLockFails(t)
          \/ RecordAccess(t)
          \/ GetEvictionIterator(t)
          \/ IterNext(t)
          \/ IterRemove(t)
          \/ IterDestroy(t)
          \/ IterResetToBegin(t)
          \/ IterDrop(t)
          \/ WithContainerLock(t)
          \/ WithContainerLockReturn(t)

Spec == Init /\ [][Next]_vars

-----------------------------------------------------------------------------
(***************************************************************************)
(* Properties.                                                             *)
(***************************************************************************)
Times == 0..MaxTime
PCs == {"idle", "add", "mark", "access", "iter", "released", "locked"}

TypeOK ==
    /\ lru \in [LruTypes -> Seq(Entries)]
    /\ flags \in [Entries -> SUBSET {Tiny, Accessed, Probation, InMM}]
    /\ updateTime \in [Entries -> Times]
    /\ accessFreq \in [Rows -> [Cols -> Nat]]
    /\ {windowSize, maxWindowSize, capacity, lruRefreshTime} \subseteq Nat
    /\ nextReconfigureTime \in Nat
    /\ now \in Times
    /\ lock \in Threads \cup {NoThread}
    /\ pc \in [Threads -> PCs]
    /\ opNode \in [Threads -> Entries \cup {NoNode}]
    /\ opTime \in [Threads -> Times]
    /\ opTryLock \in [Threads -> BOOLEAN]
    /\ iter \in [LruTypes -> Entries \cup {NoNode}]
    /\ moved \subseteq Entries
    /\ opWasAccessed \in [Threads -> BOOLEAN]
    /\ config \in [defaultLruRefreshTime : Nat, lruRefreshTime : Nat,
                   tryLockUpdate : BOOLEAN]
    /\ restarts \in 0..MaxRestarts

\* Segment membership (spec invariants 1 and 6), through every interleaving
\* of add, remove, replace, eviction and a recordAccess whose unlocked check
\* went stale: an entry is linked into a list iff its in-container bit is
\* set, then into exactly one list, once, and that list is the one its
\* Tiny/Probation bits name; Tiny and Probation are never both set, and an
\* entry outside the container carries neither.
SegmentsConsistent ==
    \A n \in Entries :
        LET lists == {lt \in LruTypes : Contains(lru[lt], n)}
        IN  /\ (InMM \in flags[n]) <=> lists # {}
            /\ InMM \in flags[n] => lists = {GetLruType(Cur, n)}
            /\ ~({Tiny, Probation} \subseteq flags[n])
            /\ InMM \notin flags[n] => flags[n] \cap {Tiny, Probation} = {}
            /\ \A lt \in lists : Len(SelectSeq(lru[lt], LAMBDA x : x = n)) = 1

\* The eviction iterator, walked (by ++ and remove(it)) until it is
\* exhausted, has yielded every entry present when it was positioned
\* exactly once, each segment from tail to head, and Main's entries only
\* after all of Tiny's and Probation's (LockedIterator::getIter).
EvictionWalkComplete ==
    (\E t \in Threads : pc[t] = "iter" /\ ~IterValid(iter)) =>
        /\ \A lt \in LruTypes :
              SelectSeq(walk, LAMBDA x : Contains(walkFrom[lt], x)) = Reverse(walkFrom[lt])
        /\ Len(walk) = Len(walkFrom.Main) + Len(walkFrom.Probation) + Len(walkFrom.Tiny)
        /\ \A i, j \in DOMAIN walk :
              i < j /\ Contains(walkFrom.Main, walk[i]) => Contains(walkFrom.Main, walk[j])

\* The sketch is sized for the container (maybeGrowAccessCountersLocked and
\* updateFrequenciesLocked): the window never reaches its maximum between
\* operations (spec invariant 5), the maximum is the capacity times the
\* window ratio, and the capacity is never less than half the size.
CountersSizedForCapacity ==
    /\ windowSize < maxWindowSize
    /\ maxWindowSize = capacity * WindowToCacheSizeRatio
    /\ (\A t \in Threads : pc[t] # "add") => 2 * capacity > SizeOf(Cur)

\* "An item will be promoted only once in each lru refresh time despite the
\* number of accesses it gets" (Config, lruRefreshTime): a recordAccess
\* never moves an entry that an earlier recordAccess moved less than
\* lruRefreshTime seconds before the time this call read.
PromotedOncePerRefreshTime ==
    [][\A t \in Threads :
          (/\ pc[t] = "access" /\ pc'[t] = "idle" /\ lock = NoThread
           /\ InMM \in flags[opNode[t]] /\ opNode[t] \in moved)
          => opTime[t] >= updateTime[opNode[t]] + lruRefreshTime]_vars

\* Spec 8, scenario 6: with tryLockUpdate, a recordAccess whose try_lock
\* fails "returns false and makes no state changes": the node's Accessed bit
\* is what it was when the call began.
TryLockFailureLeavesNoTrace ==
    [][\A t \in Threads :
          (pc[t] = "access" /\ pc'[t] = "idle" /\ lock # NoThread)
          => ((Accessed \in flags'[opNode[t]]) = opWasAccessed[t])]_vars

\* Spec invariant 3: after an access-driven promotion from Probation to
\* Main, |Main| <= protectionSegmentSizePct * (|Main| + |Probation|) / 100.
MainCapAfterPromotion ==
    [][(\E n \in Entries : Contains(lru.Probation, n) /\ Contains(lru'.Main, n))
       => Len(lru'.Main) * 100 <= ProtectionSegmentSizePct * (Len(lru'.Main) + Len(lru'.Probation))]_vars

\* Spec invariant 2: once add completes, |Tiny| <= tinySizePercent *
\* |container| / 100.
TinyCapAfterAdd ==
    [][(\E t \in Threads : pc[t] = "add" /\ InMM \notin flags[opNode[t]] /\ pc'[t] = "idle")
       => Len(lru'.Tiny) * 100 <= TinySizePercent * SizeOf([lru |-> lru'])]_vars

\* The container implements the MM container contract (MMContainer): the
\* items linked into the three lists change only by an add of an absent
\* item, a remove or replace of a present one, or an eviction by the one
\* thread holding the iterator, and never while an iterator is held by
\* another; a recordAccess (even one whose unlocked check went stale), from
\* its start to its return, leaves them alone, and so do setConfig and
\* saveState/restore.
AbsMM == INSTANCE MMContainer
             WITH members <- {n \in Entries : \E lt \in LruTypes : Contains(lru[lt], n)},
                  holder <- lock,
                  accessing <- {t \in Threads : pc[t] \in {"mark", "access"}},
                  epoch <- restarts

ImplementsMMContainer == AbsMM!Spec

\* Spec 8, "saveState followed by restoration reproduces identical ...
\* configuration": the restored container's defaultLruRefreshTime is the
\* one it was configured with (saveState / Config(serialized) /
\* reconfigureLocked's lower bound).
RestoreKeepsDefaultRefreshTime ==
    [][restarts' = restarts + 1 =>
         config'.defaultLruRefreshTime = config.defaultLruRefreshTime]_vars

\* getEvictionAgeStat's oldestElementAge is the age of the oldest entry of
\* Main: no entry of the warm queue, at any projected length, is older than
\* the tail (getEvictionAgeStatLocked; reconfigureLocked derives
\* lruRefreshTime_ from this age).  It rests on Main being ordered by update
\* time, which the clock readings taken before the lock in add and
\* recordAccess must not upset.
OldestElementAgeIsOldest ==
    \A k \in 0..Len(lru.Main) :
        LET stat == EvictionAgeStat(Cur, now, k)
        IN  stat.projectedAge <= stat.oldestElementAge

=============================================================================
