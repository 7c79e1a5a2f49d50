SPECIFICATION FairSpec
CONSTANTS
    w1 = w1
    w2 = w2
    w3 = w3
    f1 = f1
    f2 = f2
    f3 = f3
    k1 = k1
    k2 = k2
    o1 = o1
    o2 = o2
    None = None
    Writers = {w1, w2, w3}
    Files = {f1, f3}
    SnapshotIds = {101, 102}
    PropertyKeys = {k1, k2}
    SortOrders = {o1, o2}
    FormatVersion = 3
    Tx <- TxMixed
    NumRetries = 2
    MaxSubmits = 1
    MaxTables = 1
    MayFail = FALSE
    MayCancel = FALSE
    MayTimeOut = FALSE
    MayLoseResponse = FALSE
INVARIANTS
    RowIdsDisjoint
PROPERTIES
    EveryoneCommits
