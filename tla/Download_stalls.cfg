SPECIFICATION Spec
CONSTANTS
    Procs = {p1}
    Versions <- MCVersions
    Size <- MCSize
    Pinned = "v1"
    Checked = TRUE
    StallLimit = 5
INVARIANTS GivesUpOnlyWhenBarren
CHECK_DEADLOCK FALSE
