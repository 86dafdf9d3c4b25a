\* Concurrent run: two threads, two entries, clock 0..1, blocking lock at start. Either thread may call setConfig between its own calls, switching tryLockUpdate and the refresh times, so it can land inside the other thread's recordAccess.
CONSTANTS
    e1 = e1
    e2 = e2
    e3 = e3
    e4 = e4
    t1 = t1
    t2 = t2
    Entries <- MCTwoEntries
    Threads <- MCThreads
    Rows <- MCRows
    Cols <- MCCols
    Hash <- MCHash
    NoNode = NoNode
    NoThread = NoThread
    MaxTime = 1
    DefaultLruRefreshTime = 1
    LruRefreshRatioNum = 1
    LruRefreshRatioDen = 1
    UpdateOnWrite = FALSE
    UpdateOnRead = TRUE
    TryLockUpdate = FALSE
    WindowToCacheSizeRatio = 2
    TinySizePercent = 50
    MMReconfigureIntervalSecs = 1
    NewcomerWinsOnTie = TRUE
    ProtectionFreq = 1
    ProtectionSegmentSizePct = 50
    kDefaultCapacity = 1
    kLruRefreshTimeCap = 2
    ConfigChoices <- MCConfigChoices
    MaxRestarts = 0
SPECIFICATION Spec
SYMMETRY ThreadSymmetry
INVARIANTS
    SegmentsConsistent
PROPERTY
    ImplementsMMContainer
