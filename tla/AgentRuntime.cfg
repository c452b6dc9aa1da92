\* One worker with users and crashes, a pool of two, and leases that lapse.
CONSTANTS
    w1 = w1
    w2 = w2
    t1 = t1
    t2 = t2
    None = None
    Items <- ItemsMC
    Workers <- WorkersMC
    Threads <- ThreadsMC
    MaxSteps = 2
    Retryable = FALSE
    MaxTurns = 4
    Deployments <- SafeDeployments
SYMMETRY Symmetry
SPECIFICATION Spec
INVARIANTS EffectOnce TurnAnswersItsItem AckedMeansAnswered ThreadFailsAfterItem OneRunnerPerThread
CHECK_DEADLOCK FALSE
