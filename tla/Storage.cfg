\* Two HTTP requests at a time, a worker that logs, the cleanup, one failure.
SPECIFICATION LiveSpec
CONSTANTS
    None = None
    Sub = {s1}
    Url = {u1}
    Client = {c1, c2}
    Logger = {g1}
    Kinds = {"create", "ingest", "update", "delete", "log"}
    MaxLogs = 2
    MaxFaults = 1
INVARIANTS
    TypeOK
    OneDelete
    CacheBehind
PROPERTIES
    RefinesRegistry
    FirstWebhook
    EveryRequestAnswered
    OldLogsGo
