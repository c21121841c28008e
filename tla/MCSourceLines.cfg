SPECIFICATION LinesSpec
CONSTANTS
    Sources <- MCSources
INVARIANTS
    BracesBalanced
    RunsWhereIndented
    LintsExactly
    FormatFollowsLint
CHECK_DEADLOCK FALSE
