SPECIFICATION Spec
CONSTANTS
    None = None
    a = a
    b = b
    s1 = s1
    s2 = s2
    s3 = s3
    t = t
    ColumnNames = {a, b}
    MaxColumn = 2
    Specs <- SomeSpecs
    SnapshotIds = {s1, s2, s3}
    Tags = {t}
    Sessions <- EachApart
    FirstColumn = a
SYMMETRY AnySnapshotIds
CHECK_DEADLOCK FALSE
INVARIANTS
    FieldIdsKeepTheirMeaning
    TimeTravelIsRight
PROPERTIES
    ChangesRebuildIt
