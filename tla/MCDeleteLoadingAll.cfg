SPECIFICATION FairSpec
CONSTANTS
    p = p
    q = q
    e = e
    g = g
    Reads <- ManyReads
    MayDrop = TRUE
INVARIANTS
    ExactlyItsDeletes
    OneOwner
    PredicatesAreFound
PROPERTIES
    SingleThreadedReadsEnd
CHECK_DEADLOCK FALSE
