SPECIFICATION FairSpec
CONSTANTS
    w1 = w1
    w2 = w2
    w3 = w3
    f1 = f1
    f2 = f2
    f3 = f3
    k1 = k1
    k2 = k2
    o1 = o1
    o2 = o2
    None = None
    Writers = {w1, w2}
    Files = {f1, f2}
    SnapshotIds = {101, 102}
    PropertyKeys = {}
    SortOrders = {}
    FormatVersion = 2
    Tx <- TxApart
    NumRetries = 1
    MaxSubmits = 2
    MaxTables = 2
    MayFail = TRUE
    MayCancel = TRUE
    MayTimeOut = TRUE
    MayLoseResponse = TRUE
INVARIANTS
    TypeOK
    SnapshotsReadable
    LinearHistory
    NoDuplicateFiles
    SuccessIsVisible
    FailureLeavesNoTrace
PROPERTIES
    NothingIsLost
    CommitsOnCheckedBase
    ImplementsAtomicTable
    EveryCommitEnds
