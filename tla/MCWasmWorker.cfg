CONSTANTS
    Messages = {m1, m2, m3}
    MaxPrints = 1
SPECIFICATION Spec
INVARIANTS
    TypeOK
    AnsweredOnce
PROPERTY
    AllAnswered
CHECK_DEADLOCK FALSE
