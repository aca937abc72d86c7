\* A process starts: its recovery pass runs beside its own workers.
SPECIFICATION Spec
CONSTANTS
    None = None
    Actor <- MCActor
    Task = {t1}
    Proc = {p1}
    Worker = {w1}
    Handler = {h1}
    Canceller = {}
    QueueCap = 1
    MaxAttempts = 2
    Cancellable = {}
    Steady = {}
    PromptSteps = TRUE
    FaultKinds = {}
    MaxFaults = 0
    MaxSends = 3
PROPERTIES
    CompletedIsFinal
