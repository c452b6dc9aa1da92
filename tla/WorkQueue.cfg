\* None, one or two processes over a table of two items.
CONSTANTS
    w1 = w1
    w2 = w2
    p1 = p1
    p2 = p2
    t1 = t1
    t2 = t2
    turn = turn
    other = other
    None = None
    Items <- ItemsMC
    Workers <- WorkersMC
    Threads <- OneThread
    Kinds <- OneKind
    Processes <- TwoProcesses
    LeaseSeconds = 2
    MaxTime = 3
SPECIFICATION Spec
INVARIANTS TypeOK LeaseShape
PROPERTIES NoLeaseStealing TerminalIsFinal ImplementsLedger
CHECK_DEADLOCK FALSE
