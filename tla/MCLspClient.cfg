SPECIFICATION Spec
CONSTANTS
    q1 = q1
    q2 = q2
    Init0 = Init0
    None = None
    Queries <- MCQueries
    MaxClients = 2
    Excess = {0, 1}
INVARIANTS
    TypeOK
    OpenHasTimer
    AnswersInPlace
    LiveServerIsUsed
PROPERTIES
    EachSettledOnce
    QueriesReturn
CHECK_DEADLOCK FALSE
