CONSTANTS
    x = x
    y = y
    a = a
    b = b
    N = 3
    Key = {x}
    Val = {a, b}
    NoVal = NoVal
    MaxTerm = 3
    MaxLog = 2
SPECIFICATION Spec
INVARIANTS ElectionsSafe AckedOnQuorum ReadsLatest
CHECK_DEADLOCK FALSE
SYMMETRY Symmetry
