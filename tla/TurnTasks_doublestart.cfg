CONSTANTS
    Inputs = {i1, i2}
    Mails = {m1}
    Triggers = {m1}
    MaxTurns = 3
    MaxInterrupts = 0
    MaxCompacts = 0
SPECIFICATION Spec
CHECK_DEADLOCK FALSE
INVARIANTS SlotIsFree
