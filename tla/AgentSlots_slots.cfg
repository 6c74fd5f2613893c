SPECIFICATION Spec
CONSTANTS
    r = r
    a = a
    b = b
    o1 = o1
    o2 = o2
    Threads = {r, a, b}
    Root = r
    Stored = {}
    Ops = {o1, o2}
    Paths = {"p"}
    SpawnPaths = {"p"}
    Names = {"Atlas"}
    Format <- MCFormat
    MaxThreads = 2
    MaxResets = 1
SYMMETRY Symmetric
INVARIANT LimitHolds
INVARIANT HeldPathsAreReserved
INVARIANT NicknamesRepeatByTextOnly
PROPERTY PathKeepsItsAgent
