CONSTANTS
    x = x
    y = y
    Key = {x, y}
    Val = {a}
    NoVal = NoVal
    MaxTx = 2
    MaxOps = 2
    MaxLog = 5
    AutoCheckpoint = 2
    Worlds = {{"process_crash"}, {"power_cut"}, {"process_crash", "power_cut", "torn_write", "write_error", "closed_handle", "lost_key"}}
SPECIFICATION Spec
CONSTRAINT Intact
INVARIANTS LogLeads ReadsAreDurable
PROPERTIES CommitKeepsReads ImplementsDurableStore
CHECK_DEADLOCK FALSE
SYMMETRY Symmetry
