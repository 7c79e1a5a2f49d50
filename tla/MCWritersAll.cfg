SPECIFICATION Spec
CONSTANTS
    None = None
    p1 = p1
    p2 = p2
    p3 = p3
    Partitions = {p1, p2, p3}
    TargetFileSize = 1
    MaxBatches = 6
    MaxFaults = 3
SYMMETRY AnyPartitions
CHECK_DEADLOCK FALSE
INVARIANTS
    RowsOnceInTheirPartition
    LossIsReported
    RefusesOnlyUnsorted
    PanicsOnlyAfterErrors
