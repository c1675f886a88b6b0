SPECIFICATION FairSpec
CONSTANTS
    MaxLines = 3
    MaxSignals = 1
    CountSize = 4
    Outcomes = {"release", "delay", "session", "exit", "nomem"}
CHECK_DEADLOCK FALSE
INVARIANTS
    TypeOK
    HandOver
    LineNotFreed
PROPERTIES
    PromptReturns
    Terminates
