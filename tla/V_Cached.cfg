\* A delete overlaps with a webhook for the same subscription.
SPECIFICATION Spec
CONSTANTS
    None = None
    Sub = {s1}
    Url = {u1}
    Client = {c1, c2}
    Logger = {}
    Kinds = {"create", "ingest", "delete"}
    MaxLogs = 1
    MaxFaults = 0
INVARIANTS
    DeletedNotCached
