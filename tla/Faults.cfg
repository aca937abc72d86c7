\* One process, started, struck by up to two faults of any kind, restarted.
SPECIFICATION Spec
CONSTANTS
    None = None
    Actor <- MCActor
    Task = {t1}
    Proc = {p1}
    Worker = {w1}
    Handler = {h1}
    Canceller = {c1}
    QueueCap = 1
    MaxAttempts = 2
    Cancellable = {t1}
    Steady = {p1}
    PromptSteps = TRUE
    FaultKinds = {"crash", "stop", "redis", "expiry"}
    MaxFaults = 2
    MaxSends = 2
INVARIANTS
    MutualExclusion
    TerminalJustified
    ExitDrained
