\* Spec invariant 3: Main within its cap after every promotion.
CONSTANTS
    e1 = e1
    e2 = e2
    e3 = e3
    e4 = e4
    t1 = t1
    t2 = t2
    Entries <- MCEntries
    Threads <- MCOneThread
    Rows <- MCRows
    Cols <- MCCols
    Hash <- MCHash
    NoNode = NoNode
    NoThread = NoThread
    MaxTime = 0
    DefaultLruRefreshTime = 0
    LruRefreshRatioNum = 1
    LruRefreshRatioDen = 1
    UpdateOnWrite = FALSE
    UpdateOnRead = TRUE
    TryLockUpdate = FALSE
    WindowToCacheSizeRatio = 2
    TinySizePercent = 1
    MMReconfigureIntervalSecs = 0
    NewcomerWinsOnTie = TRUE
    ProtectionFreq = 1
    ProtectionSegmentSizePct = 34
    kDefaultCapacity = 1
    kLruRefreshTimeCap = 2
    ConfigChoices <- NoConfigChanges
    MaxRestarts = 0
SPECIFICATION Spec

PROPERTY
    MainCapAfterPromotion
