CONSTANTS
    Requests = {1, 2, 3}
    Tokens = {0, 1, 2}
    Prompts <- PromptsMC
    Model <- ModelMC
    MaxLength = 7
    Callers = {1, 2}
    MaxDirect = 4
    None = None
    MaxNews = {0, 3}
    Times = {1, 2}
    Eos = 0
    MaxBatch = 2
    MaxPrefill = 3
SPECIFICATION Spec
CHECK_DEADLOCK FALSE
INVARIANTS OutputIsModels CachesAreTrue
PROPERTIES RunsIdle
