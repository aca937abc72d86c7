\* One running process, two workers, two webhooks, nothing fails and nothing
\* is cancelled. MaxSends is above MaxAttempts: it stops no attempt.
SPECIFICATION Spec
CONSTANTS
    None = None
    Actor <- MCActor
    Task = {t1, t2}
    Proc = {p1}
    Worker = {w1, w2}
    Handler = {h1, h2}
    Canceller = {}
    QueueCap = 1
    MaxAttempts = 3
    Cancellable = {}
    Steady = {p1}
    PromptSteps = TRUE
    FaultKinds = {}
    MaxFaults = 0
    MaxSends = 4
SYMMETRY Symmetry
INVARIANTS
    TypeOK
    SinglePlace
    IndexComplete
    AttemptAccounting
    LogHistory
PROPERTIES
    NoSendAfterAck
    RefinesLifecycle
