\* A process is told to stop.
SPECIFICATION LiveSpec
CONSTANTS
    None = None
    Actor <- MCActor
    Task = {t1, t2}
    Proc = {p1}
    Worker = {w1}
    Handler = {h1}
    Canceller = {}
    QueueCap = 1
    MaxAttempts = 1
    Cancellable = {}
    Steady = {p1}
    PromptSteps = TRUE
    FaultKinds = {"stop"}
    MaxFaults = 1
    MaxSends = 1
PROPERTIES
    StopTerminates
