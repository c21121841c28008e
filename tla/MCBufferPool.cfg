CONSTANTS
    c1 = c1
    c2 = c2
    c3 = c3
    c4 = c4
    a = a
    b = b
    Client = {c1, c2}
    Content = {a}
    Zero = Zero
    Capacities = {1, 3}
    MaxPages = 5
SPECIFICATION PoolSpec
INVARIANTS PoolSound PinsHold NoLostWrite
CHECK_DEADLOCK FALSE
SYMMETRY Symmetry
