SPECIFICATION Spec
CONSTANTS
    s1 = s1
    s2 = s2
    r1 = r1
    r2 = r2
    c1 = c1
    Junk = Junk
    Senders <- MCSenders
    Receivers <- MCReceivers
    Closers <- MCClosers
    Cap = 2
    Budgets <- MCBudgets
INVARIANTS
    TypeOK
    Delivers
PROPERTY CloseReleases
CHECK_DEADLOCK FALSE
