CONSTANTS
    Inputs = {i1}
    Mails = {m1, m2}
    Triggers = {m1}
    MaxTurns = 2
    MaxInterrupts = 1
    MaxCompacts = 1
SPECIFICATION FairSpec
CHECK_DEADLOCK FALSE
INVARIANTS OneTerminalEvent WarmupExcludesSampling NothingLost
PROPERTIES SubmissionIsHandled
