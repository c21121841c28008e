SPECIFICATION Spec
CONSTANTS
    hello = hello
    loop = loop
    Keys <- MCKeys
    MaxRuns = 2
INVARIANTS
    TypeOK
    ButtonExcludes
PROPERTIES
    EachRunOnce
    RunsEnd
CHECK_DEADLOCK FALSE
