SPECIFICATION Spec
CONSTANTS
    Calls = {a, b}
    LoopTexts = {x}
    NoText = NoText
    Window = 3
    Threshold = 3
    MaxSpans = 4
    StartN = 3
    Budgets = {1}
    MaxCalls = 2
    MaxFailures = 4
SYMMETRY Symmetry
PROPERTIES DiscardHitsOffender
CHECK_DEADLOCK FALSE
