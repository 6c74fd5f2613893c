SPECIFICATION FairSpec
CONSTANTS
    Procs = {p1, p2}
    Versions <- MCVersions
    Size <- MCSize
    Pinned = "v1"
    Checked = TRUE
    StallLimit = 2
INVARIANTS PublishedIsPinned PartIsAligned FetchedOnce
PROPERTIES PartialPreserved CallEnds
CHECK_DEADLOCK FALSE
