\* Two running processes on one Redis, and a caller of CancelTask in each.
SPECIFICATION Spec
CONSTANTS
    None = None
    Actor <- MCActor
    Task = {t1}
    Proc = {p1, p2}
    Worker = {w1, w2}
    Handler = {h1}
    Canceller = {c1}
    QueueCap = 1
    MaxAttempts = 2
    Cancellable = {t1}
    Steady = {p1, p2}
    PromptSteps = TRUE
    FaultKinds = {}
    MaxFaults = 0
    MaxSends = 3
INVARIANTS
    MutualExclusion
    InProgressIsWorked
    Findable
PROPERTIES
    CancelSticks
    IndexKeepsUp
