SPECIFICATION Spec
CONSTANTS
    q1 = q1
    q2 = q2
    Init0 = Init0
    None = None
    Queries <- MCQueries
    MaxClients = 1
    Excess = {1}
INVARIANT
    FramedAnswersArrive
CHECK_DEADLOCK FALSE
