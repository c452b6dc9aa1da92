\* Two clients: a cancelled thread is revived by a turn that completes.
CONSTANTS
    t1 = t1
    t2 = t2
    u1 = u1
    u2 = u2
    c1 = c1
    c2 = c2
    begun = begun
    None = None
    Threads <- OneThread
    Turns <- OneTurn
    Checkpoints <- CheckpointsMC
    Clients <- TwoClients
    MaxEvents = 5
SPECIFICATION Spec
PROPERTIES TerminalIsFinal
CHECK_DEADLOCK FALSE
