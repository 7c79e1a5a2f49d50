SPECIFICATION Spec
CONSTANTS
    None = None
    a = a
    b = b
    c = c
    Names = {a, b, c}
    MaxId = 3
    MaxRenames = 1
    TypeOf <- Same
SYMMETRY AnyNames
CHECK_DEADLOCK FALSE
INVARIANTS
    ReadsByFieldId
