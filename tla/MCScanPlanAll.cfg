SPECIFICATION FairSpec
CONSTANTS
    Scans <- ManyScans
    MayDrop = TRUE
INVARIANTS
    TypeOK
    TasksKnowTheirDeletes
    CompleteOrError
    QueuesBounded
PROPERTIES
    ScansEndUnlessBlocked
CHECK_DEADLOCK FALSE
