\* Processes start together on an empty database; up to three times one of them is
\* killed, told to stop or refused a connection on the way. Once all serve and no
\* fault is left, nothing happens any more.
SPECIFICATION LiveSpec
CHECK_DEADLOCK FALSE
CONSTANTS
    None = None
    Proc = {p1, p2, p3}
    Migrations = 2
    FaultKinds = {"crash", "signal", "error"}
    MaxFaults = 3
INVARIANTS
    TypeOK
    AppliedOnce
    SchemaReady
PROPERTIES
    ComesUp
