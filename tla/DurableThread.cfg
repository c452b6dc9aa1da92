\* One client, two threads, two turn ids: forks at every point, crashes anywhere.
CONSTANTS
    t1 = t1
    t2 = t2
    u1 = u1
    u2 = u2
    c1 = c1
    c2 = c2
    begun = begun
    None = None
    Threads <- TwoThreads
    Turns <- TwoTurns
    Checkpoints <- CheckpointsMC
    Clients <- OneClient
    MaxEvents = 6
SPECIFICATION Spec
SYMMETRY Symmetry
INVARIANTS ForkReproduces
PROPERTIES ImplementsLifecycle
CHECK_DEADLOCK FALSE
