SPECIFICATION Spec
CONSTANTS
    None = None
    a = a
    b = b
    c = c
    Names = {a, b, c}
    MaxId = 3
    MaxRenames = 1
    TypeOf <- Mixed
SYMMETRY AnyNames
CHECK_DEADLOCK FALSE
INVARIANTS
    ReadsById
    BatchHasTheSchema
