CONSTANTS
    x = x
    y = y
    a = a
    b = b
    Key = {x, y}
    Val = {a}
    NotFound = NotFound
    MaxTx = 102
    MaxWrites = 2
SPECIFICATION Spec
INVARIANTS VersionsSound GetReadsSnapshot
PROPERTIES RepeatableRead ImplementsSnapshotStore
CHECK_DEADLOCK FALSE
SYMMETRY Symmetry
