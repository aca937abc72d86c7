\* Webhooks, their log rows and deletes of their subscription, with room for
\* all webhooks in the channel.
SPECIFICATION ServiceSpec
CONSTANTS
    None = None
    Actor <- MCActor
    Task = {t1, t2}
    Proc = {p1}
    Worker = {w1}
    Handler = {h1}
    Canceller = {}
    QueueCap = 2
    MaxAttempts = 2
    Cancellable = {}
    Steady = {p1}
    PromptSteps = TRUE
    FaultKinds = {}
    MaxFaults = 0
    MaxSends = 2
    Sub = {s1}
    TheSub = s1
    SubOf <- MCSubOf
    Url = {u1}
    Kinds = {"create", "ingest", "delete", "log"}
    MaxLogs = 4
INVARIANTS
    OutcomesLogged
PROPERTIES
    FirstAttempt
