SPECIFICATION Spec
CONSTANTS
    Calls = {a, b}
    LoopTexts = {x, y, z}
    NoText = NoText
    Window = 3
    Threshold = 3
    MaxSpans = 4
    StartN = 3
    Budgets = {0, 2}
    MaxCalls = 3
    MaxFailures = 4
SYMMETRY Symmetry
INVARIANTS TypeOK PenaltyFollowsStreak BudgetIsExact HistoryPaired
CHECK_DEADLOCK FALSE
