\* Two processes over one work item, one at a time under leases or both at once.
CONSTANTS
    s1 = s1
    s2 = s2
    p1 = p1
    p2 = p2
    charge = charge
    readFile = readFile
    ok = ok
    bad = bad
    None = None
    Scopes <- OneScope
    MaxCalls = 3
    Processes <- TwoProcesses
    Calls <- CallsMC
    Retryable <- RetryableMC
    Outcomes <- OutcomesMC
    MaxEffects = 2
SPECIFICATION Spec
INVARIANTS EffectOnce KeyBindsOneCall CompletedMeansRan
PROPERTIES ResultIsFinal LeasedCallsAreReplayed
