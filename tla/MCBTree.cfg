CONSTANTS
    small = small
    big = big
    MaxKey = 5
    Val = {small, big}
    NoVal = NoVal
    KeyLen <- KeyLengths
    ValLen <- ValLengths
    MaxPages = 8
SPECIFICATION Spec
INVARIANTS TreeSound GetAgrees ScanAgrees
CHECK_DEADLOCK FALSE
