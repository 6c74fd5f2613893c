SPECIFICATION Spec
CONSTANTS
    Procs = {p1, p2}
    MaxRev = 3
    Digests <- MCDigests
    Sha <- MCSha
SYMMETRY Symmetry
INVARIANTS LaunchIsConsistent ActiveIsInstalled
PROPERTIES NoRegression LaunchNeverUpgrades
CHECK_DEADLOCK FALSE
