\* One crash, then a restart.
SPECIFICATION LiveSpec
CONSTANTS
    None = None
    Actor <- MCActor
    Task = {t1}
    Proc = {p1}
    Worker = {w1}
    Handler = {h1}
    Canceller = {}
    QueueCap = 1
    MaxAttempts = 2
    Cancellable = {}
    Steady = {p1}
    PromptSteps = TRUE
    FaultKinds = {"crash"}
    MaxFaults = 1
    MaxSends = 3
PROPERTIES
    QueuedSurvives
