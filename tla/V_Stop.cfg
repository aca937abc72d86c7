\* SIGTERM while the dispatcher requeues a task.
SPECIFICATION Spec
CONSTANTS
    None = None
    Actor <- MCActor
    Task = {t1}
    Proc = {p1}
    Worker = {w1}
    Handler = {h1}
    Canceller = {}
    QueueCap = 1
    MaxAttempts = 2
    Cancellable = {}
    Steady = {p1}
    PromptSteps = TRUE
    FaultKinds = {"stop"}
    MaxFaults = 1
    MaxSends = 3
PROPERTIES
    StopWaits
