\* Three agents, three messages of which two are tasks, one or two processes.
CONSTANTS
    boss = boss
    ann = ann
    bob = bob
    w1 = w1
    w2 = w2
    p1 = p1
    p2 = p2
    work = work
    None = None
    Agents <- AgentsMC
    Boss = boss
    Team <- TeamMC
    Targets <- TargetsMC
    Workers <- WorkersMC
    LeaseOf <- LeaseOfMC
    Processes <- ProcessesMC
    Messages <- MessagesMC
    Tasks <- TasksMC
    TaskLists <- TaskListsMC
    Letters <- LettersMC
    Reports <- ReportsMC
    Home = p1
    Kinds <- KindsMC
    TaskKind = work
    LeaseSeconds = 1
    MaxTime = 2
    MaxWorkers = 2
    MaxRuns = 2
SPECIFICATION Spec
INVARIANTS CancelledSubtreeIsDown TaskRunsOnce ReturnedMeansAnswered
PROPERTIES MailboxImplementsLedger
CHECK_DEADLOCK FALSE
