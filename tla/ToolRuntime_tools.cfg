SPECIFICATION FairSpec
CONSTANTS
    shell = shell
    read = read
    edit = edit
    Calls <- ThreeCalls
    Parallel <- ParallelCalls
    Waits <- WaitingCalls
INVARIANTS AnsweredIsStopped OneOutcome OutcomeMatchesResponse
PROPERTIES CancelEnds
CHECK_DEADLOCK FALSE
