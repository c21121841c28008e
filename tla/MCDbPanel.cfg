SPECIFICATION PanelSpec
CONSTANTS
    MaxOps = 2
    Values = {7, 8}
    Preview = 2
INVARIANTS
    PanelTypeOK
    ToldIsTrue
    TableCurrent
CHECK_DEADLOCK FALSE
