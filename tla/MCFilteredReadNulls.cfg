SPECIFICATION Spec
CONSTANTS
    None = None
    NaN = NaN
    BelowMin = BelowMin
    AboveMax = AboveMax
    WideChars = {}
    InPredicateLimit = 2
    TicksPerSecond = 2
    SecondsPerHour = 1
    SecondsPerDay = 2
    SecondsPerMonth = 4
    BitmapRows = 7
    ManifestMight <- ManifestEvaluator
    PartitionMight <- ExpressionEvaluator
    FileOutcomes <- InclusiveMetricsEvaluator
    GroupOutcomes <- RowGroupEvaluator
    PageOutcomes <- PageIndexEvaluator
    RowPasses <- RowFilter
    Asked <- SqlFilter
    Scenarios <- NullsAndDeletes
INVARIANTS
    NoRowLost
