\* Two threads promote into Main with clock readings taken before the lock.
CONSTANTS
    e1 = e1
    e2 = e2
    e3 = e3
    e4 = e4
    t1 = t1
    t2 = t2
    Entries <- MCTwoEntries
    Threads <- MCThreads
    Rows <- MCRows
    Cols <- MCCols
    Hash <- MCHash
    NoNode = NoNode
    NoThread = NoThread
    MaxTime = 2
    DefaultLruRefreshTime = 1
    LruRefreshRatioNum = 1
    LruRefreshRatioDen = 1
    UpdateOnWrite = FALSE
    UpdateOnRead = TRUE
    TryLockUpdate = FALSE
    WindowToCacheSizeRatio = 2
    TinySizePercent = 1
    MMReconfigureIntervalSecs = 1
    NewcomerWinsOnTie = TRUE
    ProtectionFreq = 1
    ProtectionSegmentSizePct = 100
    kDefaultCapacity = 1
    kLruRefreshTimeCap = 2
    ConfigChoices <- NoConfigChanges
    MaxRestarts = 0
SPECIFICATION Spec
SYMMETRY ThreadSymmetry
INVARIANTS
    OldestElementAgeIsOldest
